---- MODULE Spec2Model ----
(***************************************************************************)
(* RIMS: the sale processor (src/src/index.ts, processSale) and the waste  *)
(* processor (src/src/server.ts, POST /waste-logs) running as concurrent   *)
(* request handlers against one store.                                     *)
(*                                                                         *)
(* Every awaited prisma call is one atomic step against the store; the     *)
(* synchronous code between two awaits belongs to the step of the call     *)
(* that precedes it.  REAL columns and JS numbers are modelled as exact    *)
(* fractions [n, d] (d = 0 encodes +Infinity, -Infinity and NaN); the      *)
(* rounding of IEEE doubles is modelled, at a reduced precision, only in   *)
(* the section on the feasibility of a sale.                               *)
(***************************************************************************)
EXTENDS Integers, Sequences, FiniteSets, TLC

(***************************************************************************)
(* Bounds                                                                  *)
(***************************************************************************)
\* number of request slots (requests that are handled in one run)
MaxReq ==
  2

\* bits of the significand of a number where the model rounds as the doubles
\* of the program do (a double has 53)
MantissaBits ==
  4

(***************************************************************************)
(* JS numbers                                                              *)
(***************************************************************************)
Abs(x) ==
  IF x < 0 THEN -x ELSE x

Sign(x) ==
  IF x < 0 THEN -1 ELSE IF x > 0 THEN 1 ELSE 0

RECURSIVE GCD(_, _)
GCD(a, b) ==
  IF b = 0 THEN a ELSE GCD(b, a % b)

\* the fraction n/d in lowest terms with d >= 0
Norm(n, d) ==
  IF d = 0
    THEN [n |-> Sign(n), d |-> 0]
    ELSE LET g == GCD(Abs(n), Abs(d))
             s == Sign(d)
         IN  [n |-> (s * n) \div g, d |-> (s * d) \div g]

Num(k) ==
  [n |-> k, d |-> 1]

IsNaN(a) ==
  a.d = 0 /\ a.n = 0

\* a / b: a division by zero is +Infinity, -Infinity or NaN, never an error
Div(a, b) ==
  Norm(a.n * b.d, a.d * b.n)

Mul(a, b) ==
  Norm(a.n * b.n, a.d * b.d)

Sub(a, b) ==
  Norm(a.n * b.d - b.n * a.d, a.d * b.d)

Add(a, b) ==
  Norm(a.n * b.d + b.n * a.d, a.d * b.d)

\* a < b: every comparison with NaN is false
Lt(a, b) ==
  /\ ~IsNaN(a)
  /\ ~IsNaN(b)
  /\ IF a.d = 0 /\ b.d = 0 THEN a.n < b.n ELSE a.n * b.d < b.n * a.d

\* the number x.toFixed(2) denotes: x to two decimals, ties away from zero
toFixed2(a) ==
  IF a.d = 0
    THEN a
    ELSE Norm(Sign(a.n) * ((2 * 100 * Abs(a.n) + a.d) \div (2 * a.d)), 100)

\* the number x.toFixed(4) denotes: x to four decimals, ties away from zero
toFixed4(a) ==
  IF a.d = 0
    THEN a
    ELSE Norm(Sign(a.n) * ((2 * 10000 * Abs(a.n) + a.d) \div (2 * a.d)), 10000)

\* Math.floor: the non-finite values pass through
MathFloor(a) ==
  IF a.d = 0 THEN a ELSE Num(a.n \div a.d)

\* Math.min(...list): +Infinity for no argument, NaN when an argument is NaN
RECURSIVE MathMin(_)
MathMin(list) ==
  IF list = << >>
    THEN Norm(1, 0)
    ELSE LET rest == MathMin(Tail(list))
         IN  IF IsNaN(Head(list)) \/ IsNaN(rest)
               THEN Norm(0, 0)
               ELSE IF Lt(Head(list), rest) THEN Head(list) ELSE rest

(***************************************************************************)
(* JSON values of a request body                                           *)
(***************************************************************************)
JNum(k) ==
  [type |-> "number", val |-> k]

JStr(s) ==
  [type |-> "string", val |-> s]

JUndefined ==
  [type |-> "undefined", val |-> 0]

\* !v is false
Truthy(v) ==
  \/ v.type = "number" /\ v.val # 0
  \/ v.type = "string" /\ v.val # ""

(***************************************************************************)
(* The store                                                               *)
(***************************************************************************)
IngredientIds ==
  {1, 2}

MenuItemIds ==
  {1, 2, 3}

\* an id no MenuItem row has
MissingMenuItemId ==
  Cardinality(MenuItemIds) + 1

\* an id no Ingredient row has
MissingIngredientId ==
  Cardinality(IngredientIds) + 1

VARIABLES
  ingredient,   \* Ingredient rows: id -> [name, currentStock, parLevel, unitCost]
  menuItem,     \* MenuItem rows: id -> [name]
  recipeItem,   \* RecipeItem rows in id order
  sale,         \* Sale rows in insertion order
  wasteLog,     \* WasteLog rows in insertion order
  sequence,     \* the last AUTOINCREMENT id of the tables RecipeItem and WasteLog
  emitted,      \* payloads passed to io.emit('inventory_update', ...)
  pc,           \* position of each request handler
  req,          \* the request each handler serves
  loaded,       \* processSale's menuItem (the result of findUnique)
  idx,          \* processSale's position in the deduction loop
  response,     \* the HTTP response of each request
  stock0,       \* history: currentStock of every ingredient in the initial state
  entry         \* history: the store when the request arrived

store ==
  <<ingredient, menuItem, recipeItem, sale, wasteLog, sequence>>

vars ==
  <<ingredient, menuItem, recipeItem, sale, wasteLog, sequence, emitted,
    pc, req, loaded, idx, response, stock0, entry>>

Procs ==
  1 .. MaxReq


\* the quantities a request body carries
Quantities ==
  {0 - 1, 0, 1, 2}

PositiveQuantities ==
  {q \in Quantities : q > 0}

\* bodies of POST /sales
SaleBodies ==
  {[menuItemId |-> JNum(m), quantitySold |-> JNum(q)] :
      m \in MenuItemIds \cup {MissingMenuItemId}, q \in Quantities}
  \cup {[menuItemId |-> JNum(1), quantitySold |-> JUndefined],
        [menuItemId |-> JUndefined, quantitySold |-> JNum(1)]}

\* bodies of POST /waste-logs
WasteBodies ==
  {[ingredientId |-> JNum(i), quantity |-> JNum(q), reason |-> JStr("Spilled")] :
      i \in IngredientIds, q \in Quantities}
  \cup {[ingredientId |-> JNum(MissingIngredientId), quantity |-> JNum(1),
         reason |-> JStr("Spilled")],
        [ingredientId |-> JNum(0), quantity |-> JNum(1), reason |-> JStr("Spilled")],
        [ingredientId |-> JNum(1), quantity |-> JUndefined, reason |-> JStr("Spilled")],
        [ingredientId |-> JNum(1), quantity |-> JNum(1), reason |-> JStr("")],
        [ingredientId |-> JNum(2), quantity |-> JNum(1), reason |-> JStr("Expired")]}

\* the bodies of the requests that overlap: well-formed, of a positive quantity,
\* for a menu item that has a recipe
OverlapSaleBodies ==
  {[menuItemId |-> JNum(m), quantitySold |-> JNum(q)] : m \in {1, 2}, q \in PositiveQuantities}

OverlapWasteBodies ==
  {[ingredientId |-> JNum(i), quantity |-> JNum(q), reason |-> JStr("Spilled")] :
      i \in IngredientIds, q \in PositiveQuantities}

NoRequest ==
  [route |-> "none", body |-> [none |-> 0]]

NoResponse ==
  [status |-> 0, body |-> [none |-> 0]]

NoMenuItem ==
  [found |-> FALSE]

\* currentStock of every ingredient
Stock ==
  [i \in DOMAIN ingredient |-> ingredient[i].currentStock]

\* Burger: Beef 3 at yield 2 and Bun 1 at yield 1; Patty: Beef 1 at yield 2;
\* Water: no recipe
InitRecipeItems ==
  << [id |-> 1, menuItemId |-> 1, ingredientId |-> 1,
      quantityRequired |-> Num(3), yieldFactor |-> Num(2)],
     [id |-> 2, menuItemId |-> 1, ingredientId |-> 2,
      quantityRequired |-> Num(1), yieldFactor |-> Num(1)],
     [id |-> 3, menuItemId |-> 2, ingredientId |-> 1,
      quantityRequired |-> Num(1), yieldFactor |-> Num(2)] >>

InitBeefStock ==
  {1, 3}

InitBunStock ==
  {0, 2}

Init ==
  /\ \E beef \in InitBeefStock, bun \in InitBunStock :
        ingredient = (1 :> [name |-> "Beef", currentStock |-> Num(beef),
                            parLevel |-> Num(2), unitCost |-> Num(1)])
                  @@ (2 :> [name |-> "Bun", currentStock |-> Num(bun),
                            parLevel |-> Num(1), unitCost |-> Norm(1, 2)])
  /\ menuItem = (1 :> [name |-> "Burger", basePrice |-> Num(13)])
              @@ (2 :> [name |-> "Patty", basePrice |-> Num(5)])
              @@ (3 :> [name |-> "Water", basePrice |-> Num(2)])
  /\ recipeItem = InitRecipeItems
  /\ sale = << >>
  /\ wasteLog = << >>
  /\ sequence = [RecipeItem |-> Len(InitRecipeItems), WasteLog |-> 0]
  /\ emitted = << >>
  /\ pc = [p \in Procs |-> "idle"]
  /\ req = [p \in Procs |-> NoRequest]
  /\ loaded = [p \in Procs |-> NoMenuItem]
  /\ idx = [p \in Procs |-> 0]
  /\ response = [p \in Procs |-> NoResponse]
  /\ stock0 = Stock
  /\ entry = [p \in Procs |-> [none |-> 0]]

(***************************************************************************)
(* processSale (src/src/index.ts)                                          *)
(***************************************************************************)
\* mutation: the yield multiplies
calculateActualDeductionTimesYield(quantityRequired, yieldFactor) ==
  Mul(quantityRequired, yieldFactor)

calculateActualDeduction(quantityRequired, yieldFactor) ==
  Div(quantityRequired, yieldFactor)

\* mutation: the yield factor is left out of the deduction
totalDeductionNominal(recipe, quantitySold) ==
  Mul(recipe.quantityRequired, Num(quantitySold))

\* totalDeduction of one recipe item
totalDeduction(recipe, quantitySold) ==
  Mul(calculateActualDeduction(recipe.quantityRequired, recipe.yieldFactor),
      Num(quantitySold))

\* prisma.menuItem.findUnique with its recipeItems and their ingredients
findUnique(id) ==
  IF id \in DOMAIN menuItem
    THEN LET rows == SelectSeq(recipeItem, LAMBDA r : r.menuItemId = id)
         IN  [found |-> TRUE, id |-> id, name |-> menuItem[id].name,
              recipeItems |->
                [k \in 1 .. Len(rows) |->
                   [ingredientId |-> rows[k].ingredientId,
                    quantityRequired |-> rows[k].quantityRequired,
                    yieldFactor |-> rows[k].yieldFactor,
                    ingredient |-> ingredient[rows[k].ingredientId]]]]
    ELSE NoMenuItem

\* mutation: the stock is compared with the deduction of one unit
ShortOfOneUnit(recipes, quantitySold) ==
  SelectSeq(recipes,
            LAMBDA r : Lt(r.ingredient.currentStock,
                          calculateActualDeduction(r.quantityRequired, r.yieldFactor)))

\* the recipe items the validation loop reports
Short(recipes, quantitySold) ==
  SelectSeq(recipes,
            LAMBDA r : Lt(r.ingredient.currentStock, totalDeduction(r, quantitySold)))

\* mutation: the validation loop stops at the first shortage
insufficientStockFirstOnly(recipes, quantitySold) ==
  LET short == Short(recipes, quantitySold)
  IN  [k \in 1 .. (IF Len(short) > 0 THEN 1 ELSE 0) |->
         [name |-> short[k].ingredient.name,
          needs |-> toFixed2(totalDeduction(short[k], quantitySold)),
          have |-> short[k].ingredient.currentStock]]

\* the insufficientStock list the validation loop builds
insufficientStock(recipes, quantitySold) ==
  LET short == Short(recipes, quantitySold)
  IN  [k \in 1 .. Len(short) |->
         [name |-> short[k].ingredient.name,
          needs |-> toFixed2(totalDeduction(short[k], quantitySold)),
          have |-> short[k].ingredient.currentStock]]

InsufficientResult(list) ==
  [success |-> FALSE, message |-> "Insufficient stock for some ingredients",
   insufficientStock |-> list]

\* mutation: a missing menu item is reported as a sale with nothing short
NotFoundAsNoShortage ==
  InsufficientResult(<< >>)

NotFoundResult ==
  [success |-> FALSE, message |-> "Menu item not found"]

SuccessResult(quantitySold, name) ==
  [success |-> TRUE, message |-> <<"Sale processed", quantitySold, name>>]

\* prisma.ingredient.update with currentStock: { decrement: amount }
\* mutation: the decrement reaches every row
decrementAll(rows, id, amount) ==
  [i \in DOMAIN rows |-> [rows[i] EXCEPT !.currentStock = Sub(@, amount)]]

\* mutation: the decrement stops at zero
decrementClamped(rows, id, amount) ==
  [rows EXCEPT ![id].currentStock =
      IF Lt(Sub(@, amount), Num(0)) THEN Num(0) ELSE Sub(@, amount)]

decrement(rows, id, amount) ==
  [rows EXCEPT ![id].currentStock = Sub(@, amount)]

\* mutation: the Sale row is written without the quantity of the call
saleCreateOneUnit(rows, menuItemId, quantitySold) ==
  Append(rows, [menuItemId |-> menuItemId, quantitySold |-> 1])

\* prisma.sale.create
saleCreate(rows, menuItemId, quantitySold) ==
  Append(rows, [menuItemId |-> menuItemId, quantitySold |-> quantitySold])

(***************************************************************************)
(* Request handlers                                                        *)
(***************************************************************************)
\* no request is between its arrival and its response
Quiescent ==
  \A p \in Procs : pc[p] \in {"idle", "done"}

\* slots are taken in order: they are interchangeable
SlotFree(p) ==
  /\ pc[p] = "idle"
  /\ \A r \in Procs : r < p => pc[r] # "idle"

Snapshot ==
  [stock |-> Stock, sales |-> Len(sale), wasteLogs |-> Len(wasteLog)]

Respond(p, status, body) ==
  /\ response' = [response EXCEPT ![p] = [status |-> status, body |-> body]]
  /\ pc' = [pc EXCEPT ![p] = "done"]

\* app.post("/sales"): the type check, then the call of processSale
PostSales(p, body) ==
  /\ SlotFree(p)
  /\ req' = [req EXCEPT ![p] = [route |-> "POST /sales", body |-> body]]
  /\ entry' = [entry EXCEPT ![p] = Snapshot]
  /\ IF body.menuItemId.type # "number" \/ body.quantitySold.type # "number"
       THEN Respond(p, 400, [error |-> "menuItemId and quantitySold required"])
       ELSE /\ pc' = [pc EXCEPT ![p] = "findUnique"]
            /\ UNCHANGED response
  /\ UNCHANGED <<store, emitted, loaded, idx, stock0>>

\* mutation: one loop that deducts every ingredient it finds sufficient and
\* reports the shortages afterwards
SaleFindUniqueDeductsAsItChecks(p) ==
  /\ pc[p] = "findUnique"
  /\ LET quantitySold == req[p].body.quantitySold.val
         item == findUnique(req[p].body.menuItemId.val)
     IN  IF ~item.found
           THEN /\ Respond(p, 400, NotFoundResult)
                /\ UNCHANGED <<ingredient, loaded, idx>>
           ELSE LET list == insufficientStock(item.recipeItems, quantitySold)
                    covered == {k \in 1 .. Len(item.recipeItems) :
                                  ~Lt(item.recipeItems[k].ingredient.currentStock,
                                      totalDeduction(item.recipeItems[k], quantitySold))}
                IN  /\ ingredient' =
                         [i \in DOMAIN ingredient |->
                            IF \E k \in covered : item.recipeItems[k].ingredientId = i
                              THEN LET k == CHOOSE c \in covered :
                                               item.recipeItems[c].ingredientId = i
                                   IN  [ingredient[i] EXCEPT !.currentStock =
                                          Sub(@, totalDeduction(item.recipeItems[k],
                                                                quantitySold))]
                              ELSE ingredient[i]]
                    /\ IF Len(list) > 0
                         THEN /\ Respond(p, 400, InsufficientResult(list))
                              /\ UNCHANGED <<loaded, idx>>
                         ELSE /\ loaded' = [loaded EXCEPT ![p] = item]
                              /\ idx' = [idx EXCEPT ![p] = Len(item.recipeItems) + 1]
                              /\ pc' = [pc EXCEPT ![p] = "create"]
                              /\ UNCHANGED response
  /\ UNCHANGED <<menuItem, recipeItem, sale, wasteLog, sequence, emitted, req, stock0,
                 entry>>

\* mutation: a menu item without recipe items cannot be sold
SaleFindUniqueNeedsRecipe(p) ==
  /\ pc[p] = "findUnique"
  /\ LET quantitySold == req[p].body.quantitySold.val
         item == findUnique(req[p].body.menuItemId.val)
     IN  IF ~item.found
           THEN /\ Respond(p, 400, NotFoundResult)
                /\ UNCHANGED <<loaded, idx>>
           ELSE LET list == insufficientStock(item.recipeItems, quantitySold)
                IN  IF Len(list) > 0 \/ Len(item.recipeItems) = 0
                      THEN /\ Respond(p, 400, InsufficientResult(list))
                           /\ UNCHANGED <<loaded, idx>>
                      ELSE /\ loaded' = [loaded EXCEPT ![p] = item]
                           /\ idx' = [idx EXCEPT ![p] = 1]
                           /\ pc' = [pc EXCEPT ![p] =
                                       IF Len(item.recipeItems) > 0
                                         THEN "update" ELSE "create"]
                           /\ UNCHANGED response
  /\ UNCHANGED <<store, emitted, req, stock0, entry>>

\* processSale from findUnique to its first write: not found, the
\* validation loop and its early return
SaleFindUnique(p) ==
  /\ pc[p] = "findUnique"
  /\ LET quantitySold == req[p].body.quantitySold.val
         item == findUnique(req[p].body.menuItemId.val)
     IN  IF ~item.found
           THEN /\ Respond(p, 400, NotFoundResult)
                /\ UNCHANGED <<loaded, idx>>
           ELSE LET list == insufficientStock(item.recipeItems, quantitySold)
                IN  IF Len(list) > 0
                      THEN /\ Respond(p, 400, InsufficientResult(list))
                           /\ UNCHANGED <<loaded, idx>>
                      ELSE /\ loaded' = [loaded EXCEPT ![p] = item]
                           /\ idx' = [idx EXCEPT ![p] = 1]
                           /\ pc' = [pc EXCEPT ![p] =
                                       IF Len(item.recipeItems) > 0
                                         THEN "update" ELSE "create"]
                           /\ UNCHANGED response
  /\ UNCHANGED <<store, emitted, req, stock0, entry>>

\* mutation: the update writes the stock that findUnique read, less the total
SaleUpdateWritesFromRead(p) ==
  /\ pc[p] = "update"
  /\ LET recipe == loaded[p].recipeItems[idx[p]]
     IN  /\ recipe.ingredientId \in DOMAIN ingredient
         /\ ingredient' =
              [ingredient EXCEPT ![recipe.ingredientId].currentStock =
                 Sub(recipe.ingredient.currentStock,
                     totalDeduction(recipe, req[p].body.quantitySold.val))]
  /\ idx' = [idx EXCEPT ![p] = @ + 1]
  /\ pc' = [pc EXCEPT ![p] =
              IF idx[p] < Len(loaded[p].recipeItems) THEN "update" ELSE "create"]
  /\ UNCHANGED <<menuItem, recipeItem, sale, wasteLog, sequence, emitted, req, loaded,
                 response, stock0, entry>>

\* one turn of the deduction loop: prisma.ingredient.update
SaleUpdate(p) ==
  /\ pc[p] = "update"
  /\ LET recipe == loaded[p].recipeItems[idx[p]]
     IN  /\ recipe.ingredientId \in DOMAIN ingredient
         /\ ingredient' = decrement(ingredient, recipe.ingredientId,
                                    totalDeduction(recipe, req[p].body.quantitySold.val))
  /\ idx' = [idx EXCEPT ![p] = @ + 1]
  /\ pc' = [pc EXCEPT ![p] =
              IF idx[p] < Len(loaded[p].recipeItems) THEN "update" ELSE "create"]
  /\ UNCHANGED <<menuItem, recipeItem, sale, wasteLog, sequence, emitted, req, loaded,
                 response, stock0, entry>>

\* the update rejects: processSale throws and the handler answers 500
SaleUpdateFails(p) ==
  /\ pc[p] = "update"
  /\ Respond(p, 500, [error |-> "Failed to process sale"])
  /\ UNCHANGED <<store, emitted, req, loaded, idx, stock0, entry>>

\* prisma.sale.create and the return of processSale; the foreign key needs the
\* menu item to be there still
SaleCreate(p) ==
  /\ pc[p] = "create"
  /\ req[p].body.menuItemId.val \in DOMAIN menuItem
  /\ sale' = saleCreate(sale, req[p].body.menuItemId.val, req[p].body.quantitySold.val)
  /\ pc' = [pc EXCEPT ![p] = "emit"]
  /\ UNCHANGED <<ingredient, menuItem, recipeItem, wasteLog, sequence, emitted, req,
                 loaded, idx, response, stock0, entry>>

\* the insert rejects: processSale throws and the handler answers 500
SaleCreateFails(p) ==
  /\ pc[p] = "create"
  /\ Respond(p, 500, [error |-> "Failed to process sale"])
  /\ UNCHANGED <<store, emitted, req, loaded, idx, stock0, entry>>

\* the handler after processSale returned success: io.emit and res.json
SaleEmit(p) ==
  /\ pc[p] = "emit"
  /\ emitted' = Append(emitted, [message |-> "Sale processed",
                                 menuItemId |-> req[p].body.menuItemId.val,
                                 quantitySold |-> req[p].body.quantitySold.val])
  /\ Respond(p, 200, SuccessResult(req[p].body.quantitySold.val, loaded[p].name))
  /\ UNCHANGED <<store, req, loaded, idx, stock0, entry>>

\* mutation: a failure to publish takes the Sale back
SaleEmitFailsUndoesSale(p) ==
  /\ pc[p] = "emit"
  /\ sale' = SubSeq(sale, 1, Len(sale) - 1)
  /\ Respond(p, 500, [error |-> "Failed to process sale"])
  /\ UNCHANGED <<ingredient, menuItem, recipeItem, wasteLog, sequence, emitted, req,
                 loaded, idx, stock0, entry>>

\* io.emit throws: the catch of the handler answers 500, nothing is published
\* and nothing is written
SaleEmitFails(p) ==
  /\ pc[p] = "emit"
  /\ Respond(p, 500, [error |-> "Failed to process sale"])
  /\ UNCHANGED <<store, emitted, req, loaded, idx, stock0, entry>>

\* prisma.wasteLog.create: the new row takes the next AUTOINCREMENT id
wasteLogCreate(rows, ingredientId, quantity, reason) ==
  Append(rows, [id |-> sequence.WasteLog + 1, ingredientId |-> ingredientId,
                quantity |-> quantity, reason |-> reason])

\* app.post("/waste-logs"): the check of the body
PostWasteLogs(p, body) ==
  /\ SlotFree(p)
  /\ req' = [req EXCEPT ![p] = [route |-> "POST /waste-logs", body |-> body]]
  /\ entry' = [entry EXCEPT ![p] = Snapshot]
  /\ IF ~Truthy(body.ingredientId) \/ body.quantity.type # "number"
          \/ ~Truthy(body.reason)
       THEN Respond(p, 400, [error |-> "ingredientId, quantity, and reason required"])
       ELSE /\ pc' = [pc EXCEPT ![p] = "wasteCreate"]
            /\ UNCHANGED response
  /\ UNCHANGED <<store, emitted, loaded, idx, stock0>>

\* prisma.wasteLog.create: the foreign key rejects an unknown ingredient
WasteCreate(p) ==
  /\ pc[p] = "wasteCreate"
  /\ IF req[p].body.ingredientId.val \in DOMAIN ingredient
       THEN /\ wasteLog' = wasteLogCreate(wasteLog, req[p].body.ingredientId.val,
                                          req[p].body.quantity.val,
                                          req[p].body.reason.val)
            /\ sequence' = [sequence EXCEPT !.WasteLog = @ + 1]
            /\ loaded' = [loaded EXCEPT ![p] = wasteLog'[Len(wasteLog')]]
            /\ pc' = [pc EXCEPT ![p] = "wasteUpdate"]
            /\ UNCHANGED response
       ELSE /\ Respond(p, 500, [error |-> "Failed to log waste"])
            /\ UNCHANGED <<wasteLog, sequence, loaded>>
  /\ UNCHANGED <<ingredient, menuItem, recipeItem, sale, emitted, req, idx, stock0,
                 entry>>

\* prisma.ingredient.update with currentStock: { decrement: quantity }
WasteUpdate(p) ==
  /\ pc[p] = "wasteUpdate"
  /\ req[p].body.ingredientId.val \in DOMAIN ingredient
  /\ ingredient' = decrement(ingredient, req[p].body.ingredientId.val,
                             Num(req[p].body.quantity.val))
  /\ pc' = [pc EXCEPT ![p] = "wasteEmit"]
  /\ UNCHANGED <<menuItem, recipeItem, sale, wasteLog, sequence, emitted, req, loaded,
                 idx, response, stock0, entry>>

\* the update rejects: the handler answers 500, the WasteLog row stays
WasteUpdateFails(p) ==
  /\ pc[p] = "wasteUpdate"
  /\ Respond(p, 500, [error |-> "Failed to log waste"])
  /\ UNCHANGED <<store, emitted, req, loaded, idx, stock0, entry>>

\* io.emit and res.status(201)
WasteEmit(p) ==
  /\ pc[p] = "wasteEmit"
  /\ emitted' = Append(emitted, [message |-> "Waste logged",
                                 ingredientId |-> req[p].body.ingredientId.val,
                                 quantity |-> req[p].body.quantity.val])
  /\ Respond(p, 201, loaded[p])
  /\ UNCHANGED <<store, req, loaded, idx, stock0, entry>>

\* Number(req.params.id) for the path segments the requests carry
Number(param) ==
  CASE param = "1" -> Num(1)
    [] param = "2" -> Num(2)
    [] param = "3" -> Num(3)
    [] param = "4" -> Num(4)
    [] OTHER -> Norm(0, 0)

\* the :id segments of the DELETE /waste-logs requests
WasteLogIdParams ==
  {"1", "2", "x"}

\* app.delete("/waste-logs/:id")
DeleteWasteLogs(p, param) ==
  /\ SlotFree(p)
  /\ req' = [req EXCEPT ![p] = [route |-> "DELETE /waste-logs/:id",
                                params |-> [id |-> param]]]
  /\ entry' = [entry EXCEPT ![p] = Snapshot]
  /\ pc' = [pc EXCEPT ![p] = "wasteDelete"]
  /\ UNCHANGED <<store, emitted, loaded, idx, response, stock0>>

\* prisma.wasteLog.delete({ where: { id } })
wasteLogDelete(rows, id) ==
  SelectSeq(rows, LAMBDA w : Num(w.id) # id)

\* mutation: the delete gives the logged quantity back to the ingredient
WasteDeleteRestoresStock(p) ==
  /\ pc[p] = "wasteDelete"
  /\ LET id == Number(req[p].params.id)
     IN  /\ \E k \in 1 .. Len(wasteLog) : Num(wasteLog[k].id) = id
         /\ LET w == CHOOSE w \in {wasteLog[k] : k \in 1 .. Len(wasteLog)} : Num(w.id) = id
            IN  ingredient' = [ingredient EXCEPT ![w.ingredientId].currentStock =
                                  Add(@, Num(w.quantity))]
         /\ wasteLog' = wasteLogDelete(wasteLog, id)
         /\ Respond(p, 204, [none |-> 0])
  /\ UNCHANGED <<menuItem, recipeItem, sale, sequence, emitted, req, loaded, idx,
                 stock0, entry>>

\* the awaited delete: 204 when the row was there, 500 when the store rejects
\* (no row of that id, or an id that is not a number)
WasteDelete(p) ==
  /\ pc[p] = "wasteDelete"
  /\ LET id == Number(req[p].params.id)
     IN  IF \E k \in 1 .. Len(wasteLog) : Num(wasteLog[k].id) = id
           THEN /\ wasteLog' = wasteLogDelete(wasteLog, id)
                /\ Respond(p, 204, [none |-> 0])
           ELSE /\ Respond(p, 500, [error |-> "Failed to delete waste log"])
                /\ UNCHANGED wasteLog
  /\ UNCHANGED <<ingredient, menuItem, recipeItem, sale, sequence, emitted, req,
                 loaded, idx, stock0, entry>>

\* a step of a request that has arrived
Step(p) ==
  \/ SaleFindUnique(p)
  \/ SaleUpdate(p)
  \/ SaleUpdateFails(p)
  \/ SaleCreate(p)
  \/ SaleCreateFails(p)
  \/ SaleEmit(p)
  \/ WasteCreate(p)
  \/ WasteUpdate(p)
  \/ WasteUpdateFails(p)
  \/ WasteEmit(p)

\* requests arrive at any time and their store calls interleave
Next ==
  \/ \E p \in Procs, body \in OverlapSaleBodies : PostSales(p, body)
  \/ \E p \in Procs, body \in OverlapWasteBodies : PostWasteLogs(p, body)
  \/ \E p \in Procs : Step(p)

Spec ==
  Init /\ [][Next]_vars

\* one request at a time: a request arrives only when none is in flight
NextSeq ==
  \/ \E p \in Procs, body \in SaleBodies : Quiescent /\ PostSales(p, body)
  \/ \E p \in Procs, body \in WasteBodies : Quiescent /\ PostWasteLogs(p, body)
  \/ \E p \in Procs : Step(p)

SpecSeq ==
  Init /\ [][NextSeq]_vars

\* the bodies of POST /recipe-items; quantityRequired and yieldFactor carry the
\* number itself
RecipeCreateBodies ==
  {[menuItemId |-> JNum(3), ingredientId |-> JNum(i), quantityRequired |-> JNum(q),
    yieldFactor |-> y] :
      i \in IngredientIds, q \in {Num(0), Norm(3, 2)},
      y \in {JUndefined, JNum(Num(0)), JNum(Norm(1, 2)), JNum(Num(2))}}
  \cup {[menuItemId |-> JUndefined, ingredientId |-> JNum(1),
         quantityRequired |-> JNum(Num(1)), yieldFactor |-> JUndefined],
        [menuItemId |-> JNum(3), ingredientId |-> JNum(1),
         quantityRequired |-> JUndefined, yieldFactor |-> JUndefined],
        [menuItemId |-> JNum(MissingMenuItemId), ingredientId |-> JNum(1),
         quantityRequired |-> JNum(Num(1)), yieldFactor |-> JUndefined],
        [menuItemId |-> JNum(1), ingredientId |-> JNum(1),
         quantityRequired |-> JNum(Num(1)), yieldFactor |-> JUndefined]}

\* the :id segments and the bodies of PUT /recipe-items/:id
RecipeIdParams ==
  {"1", "4", "x"}

RecipeUpdateBodies ==
  {[quantityRequired |-> q, yieldFactor |-> y] :
      q \in {JUndefined, JNum(Num(0 - 1))}, y \in {JUndefined, JNum(Norm(1, 2))}}

\* app.post("/recipe-items"): the check of the body
PostRecipeItems(p, body) ==
  /\ SlotFree(p)
  /\ req' = [req EXCEPT ![p] = [route |-> "POST /recipe-items", body |-> body]]
  /\ entry' = [entry EXCEPT ![p] = Snapshot]
  /\ IF ~Truthy(body.menuItemId) \/ ~Truthy(body.ingredientId)
          \/ body.quantityRequired.type # "number"
       THEN Respond(p, 400, [error |-> "menuItemId, ingredientId, and quantityRequired required"])
       ELSE /\ pc' = [pc EXCEPT ![p] = "recipeCreate"]
            /\ UNCHANGED response
  /\ UNCHANGED <<store, emitted, loaded, idx, stock0>>

\* yieldFactor || 1.0: undefined, 0 and NaN give the default
yieldFactorOrDefault(v) ==
  IF v.type = "number" /\ v.val.n # 0 THEN v.val ELSE Num(1)

\* prisma.recipeItem.create: the new row takes the next AUTOINCREMENT id
recipeItemCreate(rows, menuItemId, ingredientId, quantityRequired, yieldFactor) ==
  Append(rows, [id |-> sequence.RecipeItem + 1, menuItemId |-> menuItemId,
                ingredientId |-> ingredientId, quantityRequired |-> quantityRequired,
                yieldFactor |-> yieldFactor])

\* mutation: the create checks the foreign keys alone
RecipeCreateAnyPair(p) ==
  /\ pc[p] = "recipeCreate"
  /\ LET body == req[p].body
         m == body.menuItemId.val
         i == body.ingredientId.val
     IN  IF m \in DOMAIN menuItem /\ i \in DOMAIN ingredient
           THEN /\ recipeItem' = recipeItemCreate(recipeItem, m, i,
                                                  body.quantityRequired.val,
                                                  yieldFactorOrDefault(body.yieldFactor))
                /\ sequence' = [sequence EXCEPT !.RecipeItem = @ + 1]
                /\ Respond(p, 201, recipeItem'[Len(recipeItem')])
           ELSE /\ Respond(p, 500, [error |-> "Failed to create recipe item"])
                /\ UNCHANGED <<recipeItem, sequence>>
  /\ UNCHANGED <<ingredient, menuItem, sale, wasteLog, emitted, req, loaded, idx,
                 stock0, entry>>

\* the awaited create: the foreign keys and the unique index on
\* (menuItemId, ingredientId) reject with 500, otherwise 201 with the row
RecipeCreate(p) ==
  /\ pc[p] = "recipeCreate"
  /\ LET body == req[p].body
         m == body.menuItemId.val
         i == body.ingredientId.val
     IN  IF /\ m \in DOMAIN menuItem
            /\ i \in DOMAIN ingredient
            /\ \A k \in 1 .. Len(recipeItem) :
                  ~(recipeItem[k].menuItemId = m /\ recipeItem[k].ingredientId = i)
           THEN /\ recipeItem' = recipeItemCreate(recipeItem, m, i,
                                                  body.quantityRequired.val,
                                                  yieldFactorOrDefault(body.yieldFactor))
                /\ sequence' = [sequence EXCEPT !.RecipeItem = @ + 1]
                /\ Respond(p, 201, recipeItem'[Len(recipeItem')])
           ELSE /\ Respond(p, 500, [error |-> "Failed to create recipe item"])
                /\ UNCHANGED <<recipeItem, sequence>>
  /\ UNCHANGED <<ingredient, menuItem, sale, wasteLog, emitted, req, loaded, idx,
                 stock0, entry>>

\* app.put("/recipe-items/:id")
PutRecipeItems(p, param, body) ==
  /\ SlotFree(p)
  /\ req' = [req EXCEPT ![p] = [route |-> "PUT /recipe-items/:id",
                                params |-> [id |-> param], body |-> body]]
  /\ entry' = [entry EXCEPT ![p] = Snapshot]
  /\ pc' = [pc EXCEPT ![p] = "recipeUpdate"]
  /\ UNCHANGED <<store, emitted, loaded, idx, response, stock0>>

\* prisma.recipeItem.update: the fields of the body that are numbers
recipeItemUpdate(row, body) ==
  [row EXCEPT !.quantityRequired = IF body.quantityRequired.type = "number"
                                     THEN body.quantityRequired.val ELSE @,
              !.yieldFactor = IF body.yieldFactor.type = "number"
                                THEN body.yieldFactor.val ELSE @]

\* the awaited update: 200 with the row, 500 when no row has that id
RecipeUpdate(p) ==
  /\ pc[p] = "recipeUpdate"
  /\ LET id == Number(req[p].params.id)
     IN  IF \E k \in 1 .. Len(recipeItem) : Num(recipeItem[k].id) = id
           THEN LET k == CHOOSE k \in 1 .. Len(recipeItem) : Num(recipeItem[k].id) = id
                IN  /\ recipeItem' = [recipeItem EXCEPT
                                        ![k] = recipeItemUpdate(@, req[p].body)]
                    /\ Respond(p, 200, recipeItem'[k])
           ELSE /\ Respond(p, 500, [error |-> "Failed to update recipe item"])
                /\ UNCHANGED recipeItem
  /\ UNCHANGED <<ingredient, menuItem, sale, wasteLog, sequence, emitted, req, loaded,
                 idx, stock0, entry>>

\* the recipe-item create and update operations, one request at a time
NextRecipes ==
  \/ \E p \in Procs, body \in RecipeCreateBodies : Quiescent /\ PostRecipeItems(p, body)
  \/ \E p \in Procs, param \in RecipeIdParams, body \in RecipeUpdateBodies :
        Quiescent /\ PutRecipeItems(p, param, body)
  \/ \E p \in Procs : RecipeCreate(p)
  \/ \E p \in Procs : RecipeUpdate(p)

SpecRecipes ==
  Init /\ [][NextRecipes]_vars

(***************************************************************************)
(* Deletes: of a recipe item, and of a menu item or an ingredient with the *)
(* rows that reference it (ON DELETE CASCADE)                              *)
(***************************************************************************)
\* app.delete("/recipe-items/:id")
DeleteRecipeItems(p, param) ==
  /\ SlotFree(p)
  /\ req' = [req EXCEPT ![p] = [route |-> "DELETE /recipe-items/:id",
                                params |-> [id |-> param]]]
  /\ entry' = [entry EXCEPT ![p] = Snapshot]
  /\ pc' = [pc EXCEPT ![p] = "recipeDelete"]
  /\ UNCHANGED <<store, emitted, loaded, idx, response, stock0>>

\* prisma.recipeItem.delete({ where: { id } })
recipeItemDelete(rows, id) ==
  SelectSeq(rows, LAMBDA r : Num(r.id) # id)

\* the awaited delete: 204 when the row was there, otherwise 500
RecipeDelete(p) ==
  /\ pc[p] = "recipeDelete"
  /\ LET id == Number(req[p].params.id)
     IN  IF \E k \in 1 .. Len(recipeItem) : Num(recipeItem[k].id) = id
           THEN /\ recipeItem' = recipeItemDelete(recipeItem, id)
                /\ Respond(p, 204, [none |-> 0])
           ELSE /\ Respond(p, 500, [error |-> "Failed to delete recipe item"])
                /\ UNCHANGED recipeItem
  /\ UNCHANGED <<ingredient, menuItem, sale, wasteLog, sequence, emitted, req, loaded,
                 idx, stock0, entry>>

\* app.delete("/menu-items/:id")
DeleteMenuItems(p, param) ==
  /\ SlotFree(p)
  /\ req' = [req EXCEPT ![p] = [route |-> "DELETE /menu-items/:id",
                                params |-> [id |-> param]]]
  /\ entry' = [entry EXCEPT ![p] = Snapshot]
  /\ pc' = [pc EXCEPT ![p] = "menuItemDelete"]
  /\ UNCHANGED <<store, emitted, loaded, idx, response, stock0>>

\* the rows of a table left when its parent row id goes
cascade(rows, column, id) ==
  SelectSeq(rows, LAMBDA r : r[column] # id)

\* mutation: the delete takes the MenuItem row alone
MenuItemDeleteOrphans(p) ==
  /\ pc[p] = "menuItemDelete"
  /\ \E m \in DOMAIN menuItem :
        /\ Num(m) = Number(req[p].params.id)
        /\ menuItem' = [k \in DOMAIN menuItem \ {m} |-> menuItem[k]]
  /\ Respond(p, 204, [none |-> 0])
  /\ UNCHANGED <<ingredient, recipeItem, sale, wasteLog, sequence, emitted, req, loaded,
                 idx, stock0, entry>>

\* prisma.menuItem.delete: the row goes and, by the foreign keys of RecipeItem
\* and Sale, so do the rows that reference it; 500 when no row has that id
MenuItemDelete(p) ==
  /\ pc[p] = "menuItemDelete"
  /\ LET id == Number(req[p].params.id)
     IN  IF \E m \in DOMAIN menuItem : Num(m) = id
           THEN LET m == CHOOSE m \in DOMAIN menuItem : Num(m) = id
                IN  /\ menuItem' = [k \in DOMAIN menuItem \ {m} |-> menuItem[k]]
                    /\ recipeItem' = cascade(recipeItem, "menuItemId", m)
                    /\ sale' = cascade(sale, "menuItemId", m)
                    /\ Respond(p, 204, [none |-> 0])
           ELSE /\ Respond(p, 500, [error |-> "Failed to delete menu item"])
                /\ UNCHANGED <<menuItem, recipeItem, sale>>
  /\ UNCHANGED <<ingredient, wasteLog, sequence, emitted, req, loaded, idx, stock0,
                 entry>>

\* app.delete("/ingredients/:id")
DeleteIngredients(p, param) ==
  /\ SlotFree(p)
  /\ req' = [req EXCEPT ![p] = [route |-> "DELETE /ingredients/:id",
                                params |-> [id |-> param]]]
  /\ entry' = [entry EXCEPT ![p] = Snapshot]
  /\ pc' = [pc EXCEPT ![p] = "ingredientDelete"]
  /\ UNCHANGED <<store, emitted, loaded, idx, response, stock0>>

\* prisma.ingredient.delete: the row goes and, by the foreign keys of
\* RecipeItem and WasteLog, so do the rows that reference it
IngredientDelete(p) ==
  /\ pc[p] = "ingredientDelete"
  /\ LET id == Number(req[p].params.id)
     IN  IF \E i \in DOMAIN ingredient : Num(i) = id
           THEN LET i == CHOOSE i \in DOMAIN ingredient : Num(i) = id
                IN  /\ ingredient' = [k \in DOMAIN ingredient \ {i} |-> ingredient[k]]
                    /\ recipeItem' = cascade(recipeItem, "ingredientId", i)
                    /\ wasteLog' = cascade(wasteLog, "ingredientId", i)
                    /\ Respond(p, 204, [none |-> 0])
           ELSE /\ Respond(p, 500, [error |-> "Failed to delete ingredient"])
                /\ UNCHANGED <<ingredient, recipeItem, wasteLog>>
  /\ UNCHANGED <<menuItem, sale, sequence, emitted, req, loaded, idx, stock0, entry>>

\* the requests of the runs with deletes
IntegritySaleBodies ==
  {[menuItemId |-> JNum(m), quantitySold |-> JNum(1)] : m \in {1, 3}}

IntegrityWasteBodies ==
  {[ingredientId |-> JNum(i), quantity |-> JNum(1), reason |-> JStr("Spilled")] :
      i \in IngredientIds}

IntegrityRecipeBodies ==
  {[menuItemId |-> JNum(m), ingredientId |-> JNum(1),
    quantityRequired |-> JNum(Num(1)), yieldFactor |-> JUndefined] : m \in {1, 3}}

IntegrityUpdateBodies ==
  {[quantityRequired |-> JNum(Num(2)), yieldFactor |-> JUndefined]}

DeleteIdParams ==
  {"1", "2", "4", "x"}

\* a store in which every table has rows: a sale of the Burger and of Water,
\* a waste log of each ingredient
InitIntegrity ==
  /\ ingredient = (1 :> [name |-> "Beef", currentStock |-> Num(3),
                         parLevel |-> Num(2), unitCost |-> Num(1)])
               @@ (2 :> [name |-> "Bun", currentStock |-> Num(2),
                         parLevel |-> Num(1), unitCost |-> Norm(1, 2)])
  /\ menuItem = (1 :> [name |-> "Burger", basePrice |-> Num(13)])
              @@ (2 :> [name |-> "Patty", basePrice |-> Num(5)])
              @@ (3 :> [name |-> "Water", basePrice |-> Num(2)])
  /\ recipeItem = InitRecipeItems
  /\ sale = << [menuItemId |-> 1, quantitySold |-> 1],
               [menuItemId |-> 3, quantitySold |-> 2] >>
  /\ wasteLog = << [id |-> 1, ingredientId |-> 1, quantity |-> 1, reason |-> "Spilled"],
                   [id |-> 2, ingredientId |-> 2, quantity |-> 2, reason |-> "Expired"] >>
  /\ sequence = [RecipeItem |-> Len(recipeItem), WasteLog |-> Len(wasteLog)]
  /\ emitted = << >>
  /\ pc = [p \in Procs |-> "idle"]
  /\ req = [p \in Procs |-> NoRequest]
  /\ loaded = [p \in Procs |-> NoMenuItem]
  /\ idx = [p \in Procs |-> 0]
  /\ response = [p \in Procs |-> NoResponse]
  /\ stock0 = Stock
  /\ entry = [p \in Procs |-> [none |-> 0]]

\* sales, waste logs, recipe edits and deletes arrive at any time and their
\* store calls interleave
NextIntegrity ==
  \/ \E p \in Procs, body \in IntegritySaleBodies : PostSales(p, body)
  \/ \E p \in Procs, body \in IntegrityWasteBodies : PostWasteLogs(p, body)
  \/ \E p \in Procs, body \in IntegrityRecipeBodies : PostRecipeItems(p, body)
  \/ \E p \in Procs, param \in DeleteIdParams, body \in IntegrityUpdateBodies :
        PutRecipeItems(p, param, body)
  \/ \E p \in Procs, param \in DeleteIdParams : DeleteRecipeItems(p, param)
  \/ \E p \in Procs, param \in DeleteIdParams : DeleteMenuItems(p, param)
  \/ \E p \in Procs, param \in DeleteIdParams : DeleteIngredients(p, param)
  \/ \E p \in Procs : Step(p)
  \/ \E p \in Procs : RecipeCreate(p)
  \/ \E p \in Procs : RecipeUpdate(p)
  \/ \E p \in Procs : RecipeDelete(p)
  \/ \E p \in Procs : MenuItemDelete(p)
  \/ \E p \in Procs : IngredientDelete(p)

SpecIntegrity ==
  InitIntegrity /\ [][NextIntegrity]_vars

(***************************************************************************)
(* Reports                                                                 *)
(***************************************************************************)
\* the stocks and par levels the reports are run on: a stock below zero is
\* what waste logging leaves, a par level of zero is the default of a new
\* ingredient
ReportStocks ==
  {Num(0 - 1), Num(0), Num(1), Num(4)}

ReportParLevels ==
  {Num(0), Num(2)}

\* a RecipeItem of quantityRequired 0, as POST /recipe-items stores it
ZeroRecipeItem ==
  [id |-> Len(InitRecipeItems) + 1, menuItemId |-> 3, ingredientId |-> 2,
   quantityRequired |-> Num(0), yieldFactor |-> Num(1)]

\* two RecipeItems of small quantities for the menu item 3: 0.0074 of Beef
\* and 0.0148 of Bun at yield 3, each a cost of 0.0024666... per serving
FineRecipeItems ==
  << [id |-> Len(InitRecipeItems) + 1, menuItemId |-> 3, ingredientId |-> 1,
      quantityRequired |-> Norm(74, 10000), yieldFactor |-> Num(3)],
     [id |-> Len(InitRecipeItems) + 2, menuItemId |-> 3, ingredientId |-> 2,
      quantityRequired |-> Norm(148, 10000), yieldFactor |-> Num(3)] >>

InitReports ==
  /\ \E beef \in ReportStocks, bun \in ReportStocks,
        beefPar \in ReportParLevels, bunPar \in ReportParLevels :
        ingredient = (1 :> [name |-> "Beef", currentStock |-> beef,
                            parLevel |-> beefPar, unitCost |-> Num(1)])
                  @@ (2 :> [name |-> "Bun", currentStock |-> bun,
                            parLevel |-> bunPar, unitCost |-> Norm(1, 2)])
  /\ menuItem = (1 :> [name |-> "Burger", basePrice |-> Num(13)])
              @@ (2 :> [name |-> "Patty", basePrice |-> Num(5)])
              @@ (3 :> [name |-> "Water", basePrice |-> Num(2)])
  /\ recipeItem \in {InitRecipeItems, Append(InitRecipeItems, ZeroRecipeItem),
                     InitRecipeItems \o FineRecipeItems}
  /\ sale = << >>
  /\ wasteLog = << >>
  /\ sequence = [RecipeItem |-> Len(recipeItem), WasteLog |-> 0]
  /\ emitted = << >>
  /\ pc = [p \in Procs |-> "idle"]
  /\ req = [p \in Procs |-> NoRequest]
  /\ loaded = [p \in Procs |-> NoMenuItem]
  /\ idx = [p \in Procs |-> 0]
  /\ response = [p \in Procs |-> NoResponse]
  /\ stock0 = Stock
  /\ entry = [p \in Procs |-> [none |-> 0]]

\* mutation: LOW only for a stock above zero
stockStatusAboveZero(ing) ==
  IF ing.currentStock = Num(0)
    THEN "CRITICAL"
    ELSE IF Lt(Num(0), ing.currentStock) /\ Lt(ing.currentStock, ing.parLevel)
           THEN "LOW"
           ELSE "OK"

\* the status of getInventorySummary
stockStatus(ing) ==
  IF ing.currentStock = Num(0)
    THEN "CRITICAL"
    ELSE IF Lt(ing.currentStock, ing.parLevel) THEN "LOW" ELSE "OK"

getInventorySummary ==
  [i \in DOMAIN ingredient |->
     [name |-> ingredient[i].name, currentStock |-> ingredient[i].currentStock,
      parLevel |-> ingredient[i].parLevel, status |-> stockStatus(ingredient[i])]]

\* app.get("/inventory")
GetInventory(p) ==
  /\ SlotFree(p)
  /\ req' = [req EXCEPT ![p] = [route |-> "GET /inventory"]]
  /\ entry' = [entry EXCEPT ![p] = Snapshot]
  /\ Respond(p, 200, getInventorySummary)
  /\ UNCHANGED <<store, emitted, loaded, idx, stock0>>

\* findMany where currentStock lte 0, mapped to the orders
generatePurchaseOrders ==
  LET ids == [i \in DOMAIN ingredient |-> i]
      lowStockItems ==
        SelectSeq(ids, LAMBDA i : \/ Lt(ingredient[i].currentStock, Num(0))
                                  \/ ingredient[i].currentStock = Num(0))
  IN  [k \in 1 .. Len(lowStockItems) |->
         LET item == ingredient[lowStockItems[k]]
         IN  [ingredientId |-> lowStockItems[k],
              name |-> item.name,
              currentStock |-> item.currentStock,
              parLevel |-> item.parLevel,
              orderQuantity |-> Mul(item.parLevel, Num(2)),
              estimatedCost |-> Mul(Sub(Mul(item.parLevel, Num(2)), item.currentStock),
                                    item.unitCost)]]

\* a call of generatePurchaseOrders
GeneratePurchaseOrders(p) ==
  /\ SlotFree(p)
  /\ req' = [req EXCEPT ![p] = [route |-> "generatePurchaseOrders"]]
  /\ entry' = [entry EXCEPT ![p] = Snapshot]
  /\ Respond(p, 0, [returns |-> generatePurchaseOrders])
  /\ UNCHANGED <<store, emitted, loaded, idx, stock0>>

\* the :menuItemId segments of GET /stock-deductions
MenuItemIdParams ==
  {"1", "2", "3", "4", "x"}

\* mutation: a started serving counts
canMakeCeil(recipe) ==
  Sub(Num(0), MathFloor(Sub(Num(0), Div(recipe.ingredient.currentStock,
                                        Div(recipe.quantityRequired,
                                            recipe.yieldFactor)))))

\* Math.floor(recipe.ingredient.currentStock / actualDeduction)
canMake(recipe) ==
  MathFloor(Div(recipe.ingredient.currentStock,
                Div(recipe.quantityRequired, recipe.yieldFactor)))

\* one entry of deductions
deductionOf(recipe) ==
  LET actualDeduction == Div(recipe.quantityRequired, recipe.yieldFactor)
  IN  [ingredient |-> recipe.ingredient.name,
       ingredientId |-> recipe.ingredientId,
       quantityRequired |-> recipe.quantityRequired,
       yieldFactor |-> recipe.yieldFactor,
       actualDeduction |-> toFixed4(actualDeduction),
       currentStock |-> recipe.ingredient.currentStock,
       canMake |-> canMake(recipe),
       costPerUnit |-> toFixed4(Mul(actualDeduction, recipe.ingredient.unitCost))]

\* deductions.reduce((sum, d) => sum + d.costPerUnit, 0)
RECURSIVE sumCostPerUnit(_)
sumCostPerUnit(deductions) ==
  IF deductions = << >>
    THEN Num(0)
    ELSE Add(sumCostPerUnit(SubSeq(deductions, 1, Len(deductions) - 1)),
             deductions[Len(deductions)].costPerUnit)

maxServings(deductions) ==
  IF Len(deductions) > 0
    THEN MathMin([k \in 1 .. Len(deductions) |-> deductions[k].canMake])
    ELSE Num(0)

\* app.get("/stock-deductions/:menuItemId"): 500 when the id is not a number,
\* 404 when no menu item has it, otherwise the projection
GetStockDeductions(p, param) ==
  /\ SlotFree(p)
  /\ req' = [req EXCEPT ![p] = [route |-> "GET /stock-deductions/:menuItemId",
                                params |-> [menuItemId |-> param]]]
  /\ entry' = [entry EXCEPT ![p] = Snapshot]
  /\ LET menuItemId == Number(param)
     IN  IF IsNaN(menuItemId)
           THEN Respond(p, 500, [error |-> "Failed to calculate deductions"])
           ELSE IF \A m \in DOMAIN menuItem : Num(m) # menuItemId
                  THEN Respond(p, 404, [error |-> "Menu item not found"])
                  ELSE LET item == findUnique(CHOOSE m \in DOMAIN menuItem :
                                                 Num(m) = menuItemId)
                           deductions == [k \in 1 .. Len(item.recipeItems) |->
                                            deductionOf(item.recipeItems[k])]
                       IN  Respond(p, 200,
                                   [menuItem |-> item.name,
                                    menuItemId |-> item.id,
                                    deductions |-> deductions,
                                    maxServings |-> maxServings(deductions),
                                    totalIngredientCost |->
                                      toFixed2(sumCostPerUnit(deductions))])
  /\ UNCHANGED <<store, emitted, loaded, idx, stock0>>

\* the reports, on any stock
NextReports ==
  \/ \E p \in Procs : GetInventory(p)
  \/ \E p \in Procs : GeneratePurchaseOrders(p)
  \/ \E p \in Procs, param \in MenuItemIdParams : GetStockDeductions(p, param)

SpecReports ==
  InitReports /\ [][NextReports]_vars

(***************************************************************************)
(* Reports over the recorded sales and waste logs. createdAt and the clock *)
(* count days; the rows of the history carry the createdAt the store gave  *)
(* them.                                                                   *)
(***************************************************************************)
\* the createdAt of the recorded rows and the readings of new Date() at which
\* the reports run
HistoryTimes ==
  {2, 3, 9, 10}

ReportInstants ==
  {10, 11}

\* the days of the query string: a number of days, or nothing usable
DaysParams ==
  {"1", "x"}

\* the keys every object literal inherits: acc[key] is truthy for them
ObjectPrototypeKeys ==
  {"constructor", "toString", "valueOf", "hasOwnProperty", "isPrototypeOf",
   "propertyIsEnumerable", "toLocaleString", "__proto__"}

InitHistory ==
  /\ ingredient = (1 :> [name |-> "Beef", currentStock |-> Num(4),
                         parLevel |-> Num(2), unitCost |-> Num(1)])
               @@ (2 :> [name |-> "Bun", currentStock |-> Num(0),
                         parLevel |-> Num(1), unitCost |-> Norm(1, 2)])
  /\ \E name \in {"Water", "constructor"} :
        menuItem = (1 :> [name |-> "Burger", basePrice |-> Num(13)])
                @@ (2 :> [name |-> "Patty", basePrice |-> Num(5)])
                @@ (3 :> [name |-> name, basePrice |-> Num(2)])
  /\ recipeItem = InitRecipeItems
  /\ \E t1 \in HistoryTimes, t2 \in HistoryTimes, t3 \in HistoryTimes,
        reason \in {"Spilled", "constructor"} :
        /\ t1 <= t2 /\ t2 <= t3
        /\ sale = << [menuItemId |-> 1, quantitySold |-> 1, createdAt |-> t1],
                     [menuItemId |-> 1, quantitySold |-> 2, createdAt |-> t2],
                     [menuItemId |-> 3, quantitySold |-> 1, createdAt |-> t3] >>
        /\ wasteLog = << [id |-> 1, ingredientId |-> 1, quantity |-> 1,
                          reason |-> "Spilled", createdAt |-> t1],
                         [id |-> 2, ingredientId |-> 2, quantity |-> 2,
                          reason |-> "Expired", createdAt |-> t2],
                         [id |-> 3, ingredientId |-> 1, quantity |-> 2,
                          reason |-> reason, createdAt |-> t3] >>
  /\ sequence = [RecipeItem |-> Len(recipeItem), WasteLog |-> Len(wasteLog)]
  /\ emitted = << >>
  /\ pc = [p \in Procs |-> "idle"]
  /\ req = [p \in Procs |-> NoRequest]
  /\ loaded = [p \in Procs |-> NoMenuItem]
  /\ idx = [p \in Procs |-> 0]
  /\ response = [p \in Procs |-> NoResponse]
  /\ stock0 = Stock
  /\ entry = [p \in Procs |-> [none |-> 0]]

\* Number(req.query.days) || fallback
daysOr(param, fallback) ==
  IF Number(param).n # 0 THEN Number(param) ELSE Num(fallback)

\* findMany where createdAt gte cutoffDate, the date now less days
sinceCutoff(rows, now, days) ==
  SelectSeq(rows, LAMBDA r : ~Lt(Num(r.createdAt), Sub(Num(now), days)))

\* the sum a loop of += builds from 0
RECURSIVE sumOf(_)
sumOf(numbers) ==
  IF numbers = << >>
    THEN Num(0)
    ELSE Add(sumOf(SubSeq(numbers, 1, Len(numbers) - 1)), numbers[Len(numbers)])

\* the keys an accumulator {} ends up owning: a key of Object.prototype is
\* found truthy, so no entry is ever created for it
ownKeys(keys) ==
  keys \ ObjectPrototypeKeys

\* getSalesReport: sales.length and Object.values(summary), the latter as a set
getSalesReport(days, now) ==
  LET sales == sinceCutoff(sale, now, days)
      itemName(r) == menuItem[r.menuItemId].name
      of(name) == SelectSeq(sales, LAMBDA r : itemName(r) = name)
  IN  [totalSales |-> Len(sales),
       summary |->
         {[name |-> name,
           quantity |-> sumOf([k \in 1 .. Len(of(name)) |-> Num(of(name)[k].quantitySold)]),
           revenue |-> sumOf([k \in 1 .. Len(of(name)) |->
                                Mul(Num(of(name)[k].quantitySold),
                                    menuItem[of(name)[k].menuItemId].basePrice)])] :
            name \in ownKeys({itemName(sales[k]) : k \in 1 .. Len(sales)})}]

\* app.get("/sales/report")
GetSalesReport(p, param, now) ==
  /\ SlotFree(p)
  /\ req' = [req EXCEPT ![p] = [route |-> "GET /sales/report",
                                query |-> [days |-> param], now |-> now]]
  /\ entry' = [entry EXCEPT ![p] = Snapshot]
  /\ Respond(p, 200, getSalesReport(daysOr(param, 7), now))
  /\ UNCHANGED <<store, emitted, loaded, idx, stock0>>

\* the summary of GET /waste-logs/summary, Object.values as sets
wasteSummary(days, now) ==
  LET logs == sinceCutoff(wasteLog, now, days)
      nameOf(log) == ingredient[log.ingredientId].name
      ofName(name) == SelectSeq(logs, LAMBDA log : nameOf(log) = name)
      ofReason(reason) == SelectSeq(logs, LAMBDA log : log.reason = reason)
  IN  [totalEntries |-> Len(logs),
       byIngredient |->
         {[name |-> name,
           totalWasted |-> sumOf([k \in 1 .. Len(ofName(name)) |->
                                    Num(ofName(name)[k].quantity)]),
           totalCost |-> sumOf([k \in 1 .. Len(ofName(name)) |->
                                  Mul(Num(ofName(name)[k].quantity),
                                      ingredient[ofName(name)[k].ingredientId].unitCost)]),
           count |-> Len(ofName(name))] :
            name \in ownKeys({nameOf(logs[k]) : k \in 1 .. Len(logs)})},
       byReason |->
         {[reason |-> reason,
           totalEntries |-> Len(ofReason(reason)),
           totalQuantity |-> sumOf([k \in 1 .. Len(ofReason(reason)) |->
                                      Num(ofReason(reason)[k].quantity)])] :
            reason \in ownKeys({logs[k].reason : k \in 1 .. Len(logs)})}]

\* app.get("/waste-logs/summary")
GetWasteSummary(p, param, now) ==
  /\ SlotFree(p)
  /\ req' = [req EXCEPT ![p] = [route |-> "GET /waste-logs/summary",
                                query |-> [days |-> param], now |-> now]]
  /\ entry' = [entry EXCEPT ![p] = Snapshot]
  /\ Respond(p, 200, wasteSummary(daysOr(param, 30), now))
  /\ UNCHANGED <<store, emitted, loaded, idx, stock0>>

\* getMenuItemDetails of an existing menu item
getMenuItemDetails(menuItemId) ==
  LET item == findUnique(menuItemId)
      basePrice == menuItem[menuItemId].basePrice
      ingredientCost ==
        sumOf([k \in 1 .. Len(item.recipeItems) |->
                 Mul(calculateActualDeduction(item.recipeItems[k].quantityRequired,
                                              item.recipeItems[k].yieldFactor),
                     item.recipeItems[k].ingredient.unitCost)])
  IN  [id |-> item.id,
       name |-> item.name,
       basePrice |-> basePrice,
       ingredientCost |-> toFixed2(ingredientCost),
       profitMargin |-> toFixed2(Mul(Div(Sub(basePrice, ingredientCost), basePrice),
                                     Num(100))),
       recipes |->
         [k \in 1 .. Len(item.recipeItems) |->
            [ingredient |-> item.recipeItems[k].ingredient.name,
             quantityRequired |-> item.recipeItems[k].quantityRequired,
             yieldFactor |-> item.recipeItems[k].yieldFactor,
             actualDeduction |->
               toFixed2(calculateActualDeduction(item.recipeItems[k].quantityRequired,
                                                 item.recipeItems[k].yieldFactor)),
             unitCost |-> item.recipeItems[k].ingredient.unitCost]]]

\* mutation: the details are cached on the menu item
GetMenuItemDetailsCaching(p, param) ==
  /\ SlotFree(p)
  /\ req' = [req EXCEPT ![p] = [route |-> "GET /menu-items/:id",
                                params |-> [id |-> param]]]
  /\ entry' = [entry EXCEPT ![p] = Snapshot]
  /\ \E m \in DOMAIN menuItem :
        /\ Num(m) = Number(param)
        /\ menuItem' = [menuItem EXCEPT ![m].basePrice = getMenuItemDetails(m).ingredientCost]
        /\ Respond(p, 200, getMenuItemDetails(m))
  /\ UNCHANGED <<ingredient, recipeItem, sale, wasteLog, sequence, emitted, loaded, idx,
                 stock0>>

\* app.get("/menu-items/:id"): 500 when the id is not a number, 404 when no
\* menu item has it, otherwise the details
GetMenuItemDetails(p, param) ==
  /\ SlotFree(p)
  /\ req' = [req EXCEPT ![p] = [route |-> "GET /menu-items/:id",
                                params |-> [id |-> param]]]
  /\ entry' = [entry EXCEPT ![p] = Snapshot]
  /\ LET id == Number(param)
     IN  IF IsNaN(id)
           THEN Respond(p, 500, [error |-> "Failed to fetch menu item"])
           ELSE IF \A m \in DOMAIN menuItem : Num(m) # id
                  THEN Respond(p, 404, [error |-> "Not found"])
                  ELSE Respond(p, 200,
                               getMenuItemDetails(CHOOSE m \in DOMAIN menuItem :
                                                    Num(m) = id))
  /\ UNCHANGED <<store, emitted, loaded, idx, stock0>>

\* every reporting operation, on a store with a history
NextHistory ==
  \/ \E p \in Procs : GetInventory(p)
  \/ \E p \in Procs : GeneratePurchaseOrders(p)
  \/ \E p \in Procs, param \in MenuItemIdParams : GetStockDeductions(p, param)
  \/ \E p \in Procs, param \in MenuItemIdParams : GetMenuItemDetails(p, param)
  \/ \E p \in Procs, param \in DaysParams, now \in ReportInstants :
        GetSalesReport(p, param, now)
  \/ \E p \in Procs, param \in DaysParams, now \in ReportInstants :
        GetWasteSummary(p, param, now)

SpecHistory ==
  InitHistory /\ [][NextHistory]_vars

(***************************************************************************)
(* The feasibility of a sale in rounded arithmetic: every number is a      *)
(* binary floating-point number and every operation rounds its exact       *)
(* result to the nearest one, ties to even.                                *)
(***************************************************************************)
Pow2(e) ==
  IF e >= 0 THEN Num(2 ^ e) ELSE Norm(1, 2 ^ (0 - e))

\* the exponent e at which a > 0 has a significand a / 2^e of MantissaBits bits
RECURSIVE Exponent(_, _)
Exponent(a, e) ==
  IF ~Lt(Div(a, Pow2(e)), Num(2 ^ MantissaBits))
    THEN Exponent(a, e + 1)
    ELSE IF Lt(Div(a, Pow2(e)), Num(2 ^ (MantissaBits - 1)))
           THEN Exponent(a, e - 1)
           ELSE e

\* the floating-point number nearest to a
Float(a) ==
  IF a.d = 0 \/ a.n = 0
    THEN a
    ELSE LET abs == Norm(Abs(a.n), a.d)
             e == Exponent(abs, 0)
             v == Div(abs, Pow2(e))
             m == v.n \div v.d
             rest == Sub(v, Num(m))
             up == \/ Lt(Norm(1, 2), rest)
                   \/ rest = Norm(1, 2) /\ m % 2 = 1
         IN  Mul(Num(Sign(a.n) * (IF up THEN m + 1 ELSE m)), Pow2(e))

\* the number the decimal literal tenths/10 denotes
Decimal(tenths) ==
  Float(Norm(tenths, 10))

\* the stock of Beef and the quantity of Beef a Burger requires, in tenths
AgreeStocks ==
  1 .. 30

AgreeQuantities ==
  1 .. 10

AgreeYields ==
  {1, 2}

\* the quantities of the sales tried
AgreeSold ==
  1 .. 3

\* a Burger of Beef and a Bun, the Bun never short for the sales tried
InitAgree ==
  /\ \E stock \in AgreeStocks, q \in AgreeQuantities, y \in AgreeYields :
        /\ ingredient = (1 :> [name |-> "Beef", currentStock |-> Decimal(stock),
                               parLevel |-> Num(2), unitCost |-> Num(1)])
                     @@ (2 :> [name |-> "Bun", currentStock |-> Num(3),
                               parLevel |-> Num(1), unitCost |-> Norm(1, 2)])
        /\ recipeItem = << [id |-> 1, menuItemId |-> 1, ingredientId |-> 1,
                            quantityRequired |-> Decimal(q), yieldFactor |-> Num(y)],
                           [id |-> 2, menuItemId |-> 1, ingredientId |-> 2,
                            quantityRequired |-> Num(1), yieldFactor |-> Num(1)] >>
  /\ menuItem = (1 :> [name |-> "Burger", basePrice |-> Num(13)])
  /\ sale = << >>
  /\ wasteLog = << >>
  /\ sequence = [RecipeItem |-> Len(recipeItem), WasteLog |-> 0]
  /\ emitted = << >>
  /\ pc = [p \in Procs |-> "idle"]
  /\ req = [p \in Procs |-> NoRequest]
  /\ loaded = [p \in Procs |-> NoMenuItem]
  /\ idx = [p \in Procs |-> 0]
  /\ response = [p \in Procs |-> NoResponse]
  /\ stock0 = Stock
  /\ entry = [p \in Procs |-> [none |-> 0]]

\* recipe.quantityRequired / recipe.yieldFactor
actualDeductionOf(recipe) ==
  Float(Div(recipe.quantityRequired, recipe.yieldFactor))

\* the validation loop of processSale: no ingredient has
\* currentStock < actualDeductionPerUnit * quantitySold
sufficientStock(recipes, quantitySold) ==
  \A k \in 1 .. Len(recipes) :
    ~Lt(recipes[k].ingredient.currentStock,
        Float(Mul(actualDeductionOf(recipes[k]), Num(quantitySold))))

\* processSale up to the end of its validation, on the store as it is
ValidateSale(p, quantitySold) ==
  /\ SlotFree(p)
  /\ req' = [req EXCEPT ![p] = [route |-> "processSale",
                                menuItemId |-> 1, quantitySold |-> quantitySold]]
  /\ entry' = [entry EXCEPT ![p] = Snapshot]
  /\ Respond(p, 0, [returns |->
                      [success |-> sufficientStock(findUnique(1).recipeItems,
                                                   quantitySold)]])
  /\ UNCHANGED <<store, emitted, loaded, idx, stock0>>

\* Math.min over Math.floor(currentStock / actualDeduction)
maxServingsOf(recipes) ==
  IF Len(recipes) > 0
    THEN MathMin([k \in 1 .. Len(recipes) |->
                    MathFloor(Float(Div(recipes[k].ingredient.currentStock,
                                        actualDeductionOf(recipes[k]))))])
    ELSE Num(0)

\* the maxServings of GET /stock-deductions/1
ProjectServings(p) ==
  /\ SlotFree(p)
  /\ req' = [req EXCEPT ![p] = [route |-> "GET /stock-deductions/:menuItemId",
                                params |-> [menuItemId |-> "1"]]]
  /\ entry' = [entry EXCEPT ![p] = Snapshot]
  /\ Respond(p, 200, [maxServings |-> maxServingsOf(findUnique(1).recipeItems)])
  /\ UNCHANGED <<store, emitted, loaded, idx, stock0>>

NextAgree ==
  \/ \E p \in Procs, quantitySold \in AgreeSold : ValidateSale(p, quantitySold)
  \/ \E p \in Procs : ProjectServings(p)

SpecAgree ==
  InitAgree /\ [][NextAgree]_vars

\* the arguments of the calls of calculateActualDeduction: any two numbers
QuantityArgs ==
  {Num(0), Norm(1, 2), Num(1), Num(2), Num(3)}

YieldArgs ==
  {Num(0 - 1), Num(0), Norm(1, 2), Num(1), Norm(3, 2), Num(2)}

\* a call of calculateActualDeduction: it returns the quotient, whatever the
\* arguments are
Calculate(p, quantityRequired, yieldFactor) ==
  /\ SlotFree(p)
  /\ req' = [req EXCEPT ![p] = [route |-> "calculateActualDeduction",
                                args |-> [quantityRequired |-> quantityRequired,
                                          yieldFactor |-> yieldFactor]]]
  /\ entry' = [entry EXCEPT ![p] = Snapshot]
  /\ Respond(p, 0, [returns |-> calculateActualDeduction(quantityRequired, yieldFactor)])
  /\ UNCHANGED <<store, emitted, loaded, idx, stock0>>

\* the calculator on its own
NextCalc ==
  \E p \in Procs, q \in QuantityArgs, y \in YieldArgs : Calculate(p, q, y)

SpecCalc ==
  Init /\ [][NextCalc]_vars

\* sales one at a time, with a publication that may fail
NextNotify ==
  \/ \E p \in Procs, body \in SaleBodies : Quiescent /\ PostSales(p, body)
  \/ \E p \in Procs : SaleFindUnique(p)
  \/ \E p \in Procs : SaleUpdate(p)
  \/ \E p \in Procs : SaleUpdateFails(p)
  \/ \E p \in Procs : SaleCreate(p)
  \/ \E p \in Procs : SaleCreateFails(p)
  \/ \E p \in Procs : SaleEmit(p)
  \/ \E p \in Procs : SaleEmitFails(p)

SpecNotify ==
  Init /\ [][NextNotify]_vars

\* waste logging and the deletion of waste logs, one request at a time
NextWaste ==
  \/ \E p \in Procs, body \in WasteBodies : Quiescent /\ PostWasteLogs(p, body)
  \/ \E p \in Procs, param \in WasteLogIdParams : Quiescent /\ DeleteWasteLogs(p, param)
  \/ \E p \in Procs : WasteCreate(p)
  \/ \E p \in Procs : WasteUpdate(p)
  \/ \E p \in Procs : WasteUpdateFails(p)
  \/ \E p \in Procs : WasteEmit(p)
  \/ \E p \in Procs : WasteDelete(p)

SpecWaste ==
  Init /\ [][NextWaste]_vars

(***************************************************************************)
(* Vocabulary of the properties                                            *)
(***************************************************************************)
Arrived(p) ==
  pc[p] # "idle"

Done(p) ==
  pc[p] = "done"

\* no request arrived after p
Last(p) ==
  \A r \in Procs : r > p => pc[r] = "idle"

\* p is a call of processSale (the body passed the handler's type check)
IsSaleCall(p) ==
  /\ Arrived(p)
  /\ req[p].route = "POST /sales"
  /\ req[p].body.menuItemId.type = "number"
  /\ req[p].body.quantitySold.type = "number"

SaleItem(p) ==
  req[p].body.menuItemId.val

SaleQty(p) ==
  req[p].body.quantitySold.val

SaleSucceeded(p) ==
  IsSaleCall(p) /\ Done(p) /\ response[p].status = 200

\* p returned the insufficient-stock failure
SaleInsufficient(p) ==
  /\ IsSaleCall(p)
  /\ Done(p)
  /\ response[p].status = 400
  /\ "insufficientStock" \in DOMAIN response[p].body

\* p returned the not-found failure
SaleNotFound(p) ==
  /\ IsSaleCall(p)
  /\ Done(p)
  /\ response[p].status = 400
  /\ "message" \in DOMAIN response[p].body
  /\ response[p].body.message = "Menu item not found"

\* the RecipeItem rows of menu item m
RecipeOf(m) ==
  SelectSeq(recipeItem, LAMBDA r : r.menuItemId = m)

\* (quantityRequired / yieldFactor) x quantitySold
Total(r, q) ==
  Mul(Div(r.quantityRequired, r.yieldFactor), Num(q))

RECURSIVE SumTotals(_, _)
SumTotals(rows, q) ==
  IF rows = << >> THEN Num(0) ELSE Add(Total(Head(rows), q), SumTotals(Tail(rows), q))

\* what a sale of q units of m removes from ingredient i
Removal(m, i, q) ==
  SumTotals(SelectSeq(RecipeOf(m), LAMBDA r : r.ingredientId = i), q)

NonNegative(a) ==
  ~Lt(a, Num(0)) /\ ~IsNaN(a)

\* the store as it was when p arrived
StoreAsAtEntry(p) ==
  /\ Stock = entry[p].stock
  /\ Len(sale) = entry[p].sales
  /\ Len(wasteLog) = entry[p].wasteLogs

\* every recipe ingredient of p's sale is decremented by its total, nothing
\* else moved, and the Sale is the one new row
SaleApplied(p) ==
  /\ \A i \in DOMAIN ingredient :
        Stock[i] = Sub(entry[p].stock[i], Removal(SaleItem(p), i, SaleQty(p)))
  /\ Len(sale) = entry[p].sales + 1
  /\ sale[Len(sale)] = [menuItemId |-> SaleItem(p), quantitySold |-> SaleQty(p)]
  /\ Len(wasteLog) = entry[p].wasteLogs

(***************************************************************************)
(* C1: two concurrent processSale calls for a menu item with one recipe    *)
(* ingredient whose stock covers either call but not both never both       *)
(* succeed, end with one success and one insufficient-stock failure, and   *)
(* never drive the stock below zero.                                       *)
(***************************************************************************)
\* p and r are the only requests, for the same single-ingredient menu item,
\* and the initial stock covers each of them but not the two together
RaceForLastStock(p, r) ==
  /\ p # r
  /\ IsSaleCall(p) /\ IsSaleCall(r)
  /\ \A o \in Procs \ {p, r} : ~Arrived(o)
  /\ SaleItem(p) = SaleItem(r)
  /\ SaleItem(p) \in DOMAIN menuItem
  /\ Len(RecipeOf(SaleItem(p))) = 1
  /\ SaleQty(p) > 0 /\ SaleQty(r) > 0
  /\ LET rec == RecipeOf(SaleItem(p))[1]
         have == stock0[rec.ingredientId]
     IN  /\ ~Lt(have, Total(rec, SaleQty(p)))
         /\ ~Lt(have, Total(rec, SaleQty(r)))
         /\ Lt(have, Add(Total(rec, SaleQty(p)), Total(rec, SaleQty(r))))

C1_ExactlyOneSaleWins ==
  \A p, r \in Procs :
    RaceForLastStock(p, r) =>
      /\ ~(SaleSucceeded(p) /\ SaleSucceeded(r))
      /\ \A i \in DOMAIN ingredient : NonNegative(Stock[i])
      /\ (Done(p) /\ Done(r) /\ response[p].status # 500 /\ response[r].status # 500)
            => \/ SaleSucceeded(p) /\ SaleInsufficient(r)
               \/ SaleSucceeded(r) /\ SaleInsufficient(p)

(***************************************************************************)
(* C2: a processSale call that finds an ingredient short mutates nothing:  *)
(* when it has returned the failure, every currentStock is what it was     *)
(* before the call and no Sale was appended.                               *)
(***************************************************************************)
C2_FailedSaleMutatesNothing ==
  \A p \in Procs :
    (SaleInsufficient(p) /\ Last(p)) => StoreAsAtEntry(p)

\* scenario C: one recipe ingredient suffices, the other is short
C2_Witness ==
  \E p \in Procs :
    /\ SaleInsufficient(p) /\ Last(p)
    /\ Len(RecipeOf(SaleItem(p))) = 2
    /\ Len(response[p].body.insufficientStock) = 1

(***************************************************************************)
(* C3: a successful processSale(menuItemId, quantitySold) decrements every *)
(* recipe ingredient by (quantityRequired / yieldFactor) x quantitySold,   *)
(* leaves every other ingredient alone and appends exactly one Sale with   *)
(* that menuItemId and quantitySold.                                       *)
(***************************************************************************)
C3_SuccessfulSaleDeducts ==
  \A p \in Procs :
    (SaleSucceeded(p) /\ Last(p)) => SaleApplied(p)

\* a sale with a fractional per-unit deduction that leaves Bun untouched
C3_Witness ==
  \E p \in Procs :
    /\ SaleSucceeded(p) /\ Last(p)
    /\ SaleItem(p) = 2 /\ SaleQty(p) = 1
    /\ Stock[1] = Sub(entry[p].stock[1], Norm(1, 2))
    /\ Stock[2] = entry[p].stock[2]

(***************************************************************************)
(* C4: no partial deduction is observable: in every state during or after  *)
(* a processSale call either every recipe ingredient is decremented and    *)
(* the Sale is recorded, or nothing is decremented and no Sale recorded.   *)
(***************************************************************************)
C4_AllOrNothing ==
  \A p \in Procs :
    (IsSaleCall(p) /\ SaleQty(p) > 0 /\ Last(p))
      => (StoreAsAtEntry(p) \/ SaleApplied(p))

(***************************************************************************)
(* C5: from non-negative stock, with quantityRequired > 0 and              *)
(* yieldFactor > 0 in every RecipeItem, processSale calls with positive    *)
(* quantitySold run one at a time never leave a currentStock below zero.   *)
(***************************************************************************)
OnlyPositiveSales ==
  \A p \in Procs : Arrived(p) => (IsSaleCall(p) /\ SaleQty(p) > 0)

PositiveRecipes ==
  \A k \in 1 .. Len(recipeItem) :
    /\ Lt(Num(0), recipeItem[k].quantityRequired)
    /\ Lt(Num(0), recipeItem[k].yieldFactor)

C5_StockStaysNonNegative ==
  (/\ OnlyPositiveSales
   /\ PositiveRecipes
   /\ \A i \in DOMAIN stock0 : NonNegative(stock0[i]))
    => \A i \in DOMAIN ingredient : NonNegative(Stock[i])

\* a sale that used up exactly what was there, followed by another sale
C5_Witness ==
  /\ OnlyPositiveSales
  /\ \E p, r \in Procs :
        /\ p < r
        /\ SaleSucceeded(p)
        /\ Done(r)
        /\ Stock[1] = Num(0)
        /\ stock0[1] # Num(0)

(***************************************************************************)
(* C6: processSale's check and its decrement are atomic with respect to a  *)
(* concurrent logWaste: no sale that passed validation applies a deduction *)
(* to an ingredient whose stock at that moment is below the sale's total.  *)
(***************************************************************************)
IsWasteCall(p) ==
  /\ Arrived(p)
  /\ req[p].route = "POST /waste-logs"

\* p is the only sale; every other request is a waste log
OnlyWasteBeside(p) ==
  \A o \in Procs \ {p} : Arrived(o) => IsWasteCall(o)

\* p applies the deduction of its current recipe item in this step
AppliesDeduction(p) ==
  /\ pc[p] = "update"
  /\ idx'[p] = idx[p] + 1

C6_NoWasteBetweenCheckAndDeduct ==
  [][\A p \in Procs :
       (AppliesDeduction(p) /\ SaleQty(p) > 0 /\ OnlyWasteBeside(p))
         => LET rec == loaded[p].recipeItems[idx[p]]
            IN  ~Lt(Stock[rec.ingredientId], Total(rec, SaleQty(p)))]_vars

(***************************************************************************)
(* C7: the shortage list of a failed processSale has exactly one entry for *)
(* each RecipeItem whose ingredient has currentStock below its total and   *)
(* none for an ingredient with enough stock: every shortage is reported.   *)
(***************************************************************************)
\* the recipe items of p's menu item that the stock at p's arrival cannot cover
ShortAtEntry(p) ==
  SelectSeq(RecipeOf(SaleItem(p)),
            LAMBDA r : Lt(entry[p].stock[r.ingredientId], Total(r, SaleQty(p))))

C7_EveryShortageListed ==
  \A p \in Procs :
    (SaleInsufficient(p) /\ Last(p)) =>
      LET list == response[p].body.insufficientStock
          short == ShortAtEntry(p)
      IN  /\ Len(list) = Len(short)
          /\ Len(list) > 0
          /\ \A k \in 1 .. Len(list) :
                list[k].name = ingredient[short[k].ingredientId].name

\* both recipe ingredients are short and both are listed
C7_Witness ==
  \E p \in Procs :
    /\ SaleInsufficient(p) /\ Last(p)
    /\ Len(response[p].body.insufficientStock) = 2

(***************************************************************************)
(* C8: after N successful processSale calls for one menu item and no other *)
(* mutation, the stock removed from each recipe ingredient equals          *)
(* (quantityRequired / yieldFactor) x the sum of quantitySold over the     *)
(* recorded Sales of that menu item.                                       *)
(***************************************************************************)
RECURSIVE SumQuantitySold(_, _)
SumQuantitySold(rows, m) ==
  IF rows = << >>
    THEN 0
    ELSE (IF Head(rows).menuItemId = m THEN Head(rows).quantitySold ELSE 0)
         + SumQuantitySold(Tail(rows), m)

\* all requests have returned, and each either was a successful sale of m or
\* was turned down (status 400)
OnlySalesOf(m) ==
  /\ Quiescent
  /\ \A p \in Procs :
        Arrived(p) => \/ SaleSucceeded(p) /\ SaleItem(p) = m
                      \/ response[p].status = 400

C8_LedgerMatchesStock ==
  \A m \in DOMAIN menuItem :
    OnlySalesOf(m) =>
      \A k \in 1 .. Len(RecipeOf(m)) :
        LET r == RecipeOf(m)[k]
        IN  Sub(stock0[r.ingredientId], Stock[r.ingredientId])
              = Mul(Div(r.quantityRequired, r.yieldFactor),
                    Num(SumQuantitySold(sale, m)))

\* two recorded sales of different positive quantities of one menu item
C8_Witness ==
  \E m \in DOMAIN menuItem :
    /\ OnlySalesOf(m)
    /\ Len(RecipeOf(m)) > 0
    /\ Len(sale) = 2
    /\ sale[1].quantitySold > 0
    /\ sale[2].quantitySold > sale[1].quantitySold

(***************************************************************************)
(* C9: processSale and logWaste reject a non-positive quantity with a      *)
(* validation error before touching the store: no currentStock changes     *)
(* and no Sale or WasteLog is created.                                     *)
(***************************************************************************)
NonPositiveQuantity(p) ==
  \/ IsSaleCall(p) /\ SaleQty(p) <= 0
  \/ /\ IsWasteCall(p)
     /\ req[p].body.quantity.type = "number"
     /\ req[p].body.quantity.val <= 0

C9_NonPositiveQuantityRejected ==
  \A p \in Procs :
    (Arrived(p) /\ NonPositiveQuantity(p) /\ Last(p)) =>
      /\ StoreAsAtEntry(p)
      /\ Done(p) => response[p].status = 400

(***************************************************************************)
(* C10: processSale for a menuItemId that no MenuItem has returns a        *)
(* not-found failure that carries no shortage list, changes no stock and   *)
(* appends no Sale.                                                        *)
(***************************************************************************)
C10_NotFoundIsDistinctAndInert ==
  \A p \in Procs :
    (IsSaleCall(p) /\ SaleItem(p) \notin DOMAIN menuItem /\ Last(p)) =>
      /\ StoreAsAtEntry(p)
      /\ pc[p] \in {"findUnique", "done"}
      /\ Done(p) =>
           /\ response[p].status = 400
           /\ response[p].body.success = FALSE
           /\ response[p].body.message = "Menu item not found"
           /\ "insufficientStock" \notin DOMAIN response[p].body
           /\ ~SaleInsufficient(p)

C10_Witness ==
  \E p \in Procs :
    /\ SaleNotFound(p) /\ Last(p)
    /\ SaleItem(p) \notin DOMAIN menuItem

\* ---------------------------------------------------------------------------
\* Waste logging

WasteIngredient(p) ==
  req[p].body.ingredientId.val

WasteQty(p) ==
  req[p].body.quantity.val

\* p passed the check of the body and names an ingredient of the store
IsLogWaste(p) ==
  /\ IsWasteCall(p)
  /\ Truthy(req[p].body.ingredientId)
  /\ req[p].body.quantity.type = "number"
  /\ Truthy(req[p].body.reason)
  /\ WasteIngredient(p) \in IngredientIds

WasteSucceeded(p) ==
  IsLogWaste(p) /\ Done(p) /\ response[p].status = 201

\* the WasteLog rows are those at p's arrival and one more, of p's quantity and
\* reason
OneNewWasteLog(p) ==
  /\ Len(wasteLog) = entry[p].wasteLogs + 1
  /\ wasteLog[Len(wasteLog)].ingredientId = WasteIngredient(p)
  /\ wasteLog[Len(wasteLog)].quantity = WasteQty(p)
  /\ wasteLog[Len(wasteLog)].reason = req[p].body.reason.val

\* C11: a waste log that succeeded on an existing ingredient left exactly one
\* new WasteLog row with its quantity and reason, took exactly its quantity
\* from that ingredient's stock and left the other stocks and the sales alone
C11_WasteLogsAndDecrements ==
  \A p \in Procs :
     WasteSucceeded(p) /\ Last(p) =>
        /\ OneNewWasteLog(p)
        /\ \A i \in IngredientIds :
              Stock[i] = IF i = WasteIngredient(p)
                           THEN Sub(entry[p].stock[i], Num(WasteQty(p)))
                           ELSE entry[p].stock[i]
        /\ Len(sale) = entry[p].sales

C11_Witness ==
  \E p \in Procs :
     /\ WasteSucceeded(p)
     /\ Last(p)
     /\ WasteQty(p) > 0
     /\ Lt(Stock[WasteIngredient(p)], entry[p].stock[WasteIngredient(p)])

\* the waste quantities logged for ingredient i
RECURSIVE SumWaste(_, _)
SumWaste(rows, i) ==
  IF rows = << >>
    THEN Num(0)
    ELSE Add(SumWaste(Tail(rows), i),
             IF Head(rows).ingredientId = i THEN Num(Head(rows).quantity) ELSE Num(0))

\* every request so far is a waste log of a positive quantity
OnlyWaste ==
  \A p \in Procs : Arrived(p) => IsLogWaste(p) /\ WasteQty(p) > 0

\* C12: in every state the stock of each ingredient is its initial stock less
\* the quantities of its WasteLog rows: a row exists exactly when its quantity
\* has been deducted
C12_LogAndDecrementAtomic ==
  OnlyWaste => \A i \in IngredientIds : Stock[i] = Sub(stock0[i], SumWaste(wasteLog, i))

\* p asks for more than the ingredient holds
ExceedsStock(p) ==
  IsLogWaste(p) /\ Lt(entry[p].stock[WasteIngredient(p)], Num(WasteQty(p)))

\* C13: a waste log of more than the stock is not refused for it, and when it
\* succeeds the row is recorded and the stock is the previous stock less the
\* quantity, below zero
C13_WasteMayGoNegative ==
  \A p \in Procs :
     ExceedsStock(p) /\ Done(p) /\ Last(p) =>
        /\ response[p].status # 400
        /\ response[p].status = 201 =>
              /\ OneNewWasteLog(p)
              /\ Stock[WasteIngredient(p)] =
                    Sub(entry[p].stock[WasteIngredient(p)], Num(WasteQty(p)))
              /\ Lt(Stock[WasteIngredient(p)], Num(0))

C13_Witness ==
  \E p \in Procs :
     /\ ExceedsStock(p)
     /\ WasteSucceeded(p)
     /\ Last(p)
     /\ Lt(Stock[WasteIngredient(p)], Num(0))

IsDeleteWasteLog(p) ==
  Arrived(p) /\ req[p].route = "DELETE /waste-logs/:id"

\* p's delete succeeds in this step
DeletesWasteLog(p) ==
  /\ IsDeleteWasteLog(p)
  /\ pc[p] = "wasteDelete"
  /\ pc'[p] = "done"
  /\ response'[p].status = 204

\* C14: the deletion of a WasteLog removes that row and nothing else: every
\* ingredient's stock, the other WasteLog rows and the sales are after the
\* deletion what they were before it, so the logged quantity is not restored
C14_DeleteKeepsStock ==
  [][\A p \in Procs :
       DeletesWasteLog(p) =>
         /\ \A i \in IngredientIds :
               ingredient'[i].currentStock = ingredient[i].currentStock
         /\ sale' = sale
         /\ Len(wasteLog') = Len(wasteLog) - 1
         /\ \A k \in 1 .. Len(wasteLog) :
               Num(wasteLog[k].id) # Number(req[p].params.id)
                 => \E j \in 1 .. Len(wasteLog') : wasteLog'[j] = wasteLog[k]
         /\ \A j \in 1 .. Len(wasteLog') :
               Num(wasteLog'[j].id) # Number(req[p].params.id)]_vars

\* a waste log of a positive quantity succeeded, its row was deleted, and the
\* stock is still short of that quantity
C14_Witness ==
  \E p, r \in Procs :
     /\ p < r
     /\ WasteSucceeded(p)
     /\ WasteQty(p) > 0
     /\ IsDeleteWasteLog(r) /\ Done(r) /\ response[r].status = 204
     /\ wasteLog = << >>
     /\ Stock[WasteIngredient(p)] = Sub(stock0[WasteIngredient(p)], Num(WasteQty(p)))

\* ---------------------------------------------------------------------------
\* The deduction calculator

\* p is a call of calculateActualDeduction that has returned
Calculated(p) ==
  Done(p) /\ req[p].route = "calculateActualDeduction"

ArgQ(p) ==
  req[p].args.quantityRequired

ArgY(p) ==
  req[p].args.yieldFactor

Returned(p) ==
  response[p].body.returns

Positive(a) ==
  Lt(Num(0), a)

\* C15: for q > 0 and y > 0 the calculator returns q / y (the finite number
\* that multiplied by y gives q), and of two calls with the same q the one
\* with the smaller y returns strictly more
C15_QuotientDecreasingInYield ==
  \A p, r \in Procs :
     (/\ Calculated(p) /\ Positive(ArgQ(p)) /\ Positive(ArgY(p))
      /\ Calculated(r) /\ Positive(ArgQ(r)) /\ Positive(ArgY(r)))
       => /\ Returned(p).d # 0
          /\ Mul(Returned(p), ArgY(p)) = ArgQ(p)
          /\ (ArgQ(p) = ArgQ(r) /\ Lt(ArgY(p), ArgY(r))) => Lt(Returned(r), Returned(p))

\* the same quantity under two different positive yields
C15_Witness ==
  \E p, r \in Procs :
     /\ Calculated(p) /\ Calculated(r)
     /\ Positive(ArgQ(p)) /\ ArgQ(p) = ArgQ(r)
     /\ Positive(ArgY(p)) /\ Lt(ArgY(p), ArgY(r))
     /\ Lt(Returned(r), Returned(p))

\* C16: a call of the calculator with a zero or negative yieldFactor fails
\* with an error: it returns no number, so never an infinite, NaN or negative
\* deduction
C16_CalculatorFailsFast ==
  \A p \in Procs :
     (Calculated(p) /\ Positive(ArgQ(p)) /\ ~Positive(ArgY(p)))
        => "returns" \notin DOMAIN response[p].body

\* ---------------------------------------------------------------------------
\* Recipe items

\* C17: every RecipeItem of the store has quantityRequired > 0 and
\* yieldFactor >= 1.0, whatever recipe items were created and updated
C17_RecipeItemsStayValid ==
  \A k \in 1 .. Len(recipeItem) :
     /\ Positive(recipeItem[k].quantityRequired)
     /\ ~Lt(recipeItem[k].yieldFactor, Num(1))
     /\ ~IsNaN(recipeItem[k].yieldFactor)

\* ---------------------------------------------------------------------------
\* Reports

\* p is a GET /inventory that has answered
Summarised(p) ==
  Done(p) /\ req[p].route = "GET /inventory"

\* C18 as stated: CRITICAL exactly when currentStock = 0, LOW exactly when
\* 0 < currentStock < parLevel, OK otherwise
C18_StatusAsStated ==
  \A p \in Procs :
     Summarised(p) =>
        \A i \in DOMAIN response[p].body :
           LET row == response[p].body[i]
           IN  row.status =
                 IF row.currentStock = Num(0)
                   THEN "CRITICAL"
                   ELSE IF Lt(Num(0), row.currentStock)
                           /\ Lt(row.currentStock, row.parLevel)
                          THEN "LOW"
                          ELSE "OK"

\* C18: getInventorySummary reports every ingredient with its stock and par
\* level, CRITICAL exactly when currentStock = 0, LOW exactly when
\* currentStock is not 0 and below parLevel (every stock below zero under a
\* par level of zero or more is LOW), OK exactly when currentStock is not 0
\* and at least parLevel
C18_StatusByStockAndPar ==
  \A p \in Procs :
     Summarised(p) =>
        /\ DOMAIN response[p].body = IngredientIds
        /\ \A i \in IngredientIds :
              LET row == response[p].body[i]
                  zero == ingredient[i].currentStock.n = 0
                  below == Lt(ingredient[i].currentStock, ingredient[i].parLevel)
              IN  /\ row.currentStock = ingredient[i].currentStock
                  /\ row.parLevel = ingredient[i].parLevel
                  /\ row.status \in {"CRITICAL", "LOW", "OK"}
                  /\ row.status = "CRITICAL" <=> zero
                  /\ row.status = "LOW" <=> (~zero /\ below)
                  /\ row.status = "OK" <=> (~zero /\ ~below)

\* a summary with a stock below zero reported LOW under a par level of zero
C18_Witness ==
  \E p \in Procs :
     /\ Summarised(p)
     /\ \E i \in IngredientIds :
           /\ Lt(ingredient[i].currentStock, Num(0))
           /\ ingredient[i].parLevel = Num(0)
           /\ response[p].body[i].status = "LOW"

\* p is a call of generatePurchaseOrders that has returned
Ordered(p) ==
  Done(p) /\ req[p].route = "generatePurchaseOrders"

\* C19: generatePurchaseOrders returns one order for each ingredient with
\* currentStock <= 0 and for no other, with orderQuantity
\* 2 x parLevel - currentStock and estimatedCost orderQuantity x unitCost
C19_OrdersRestockToTwicePar ==
  \A p \in Procs :
     Ordered(p) =>
        LET orders == response[p].body.returns
        IN  /\ \A i \in IngredientIds :
                  Cardinality({k \in 1 .. Len(orders) : orders[k].ingredientId = i})
                    = IF Lt(Num(0), ingredient[i].currentStock) THEN 0 ELSE 1
            /\ \A k \in 1 .. Len(orders) :
                  LET item == ingredient[orders[k].ingredientId]
                  IN  /\ orders[k].orderQuantity =
                           Sub(Mul(Num(2), item.parLevel), item.currentStock)
                      /\ orders[k].estimatedCost =
                           Mul(orders[k].orderQuantity, item.unitCost)

\* p is a GET /stock-deductions that answered with the projection
Projected(p) ==
  /\ Done(p)
  /\ req[p].route = "GET /stock-deductions/:menuItemId"
  /\ response[p].status = 200

\* c is the whole number of times the amount per fits in have
FitsTimes(c, have, per) ==
  /\ c.d = 1
  /\ ~Lt(have, Mul(c, per))
  /\ Lt(have, Mul(Add(c, Num(1)), per))

\* C20: in the projection of a menu item there is one entry per RecipeItem;
\* canMake of a recipe ingredient with a positive deduction is the whole
\* number of deductions its currentStock holds, floor(currentStock /
\* actualDeduction); maxServings is the least canMake of the entries and 0
\* when the menu item has no RecipeItems
C20_CanMakeAndMaxServings ==
  \A p \in Procs :
     Projected(p) =>
        LET rows == RecipeOf(Number(req[p].params.menuItemId).n)
            list == response[p].body.deductions
            most == response[p].body.maxServings
        IN  /\ Len(list) = Len(rows)
            /\ \A k \in 1 .. Len(rows) :
                  LET per == Div(rows[k].quantityRequired, rows[k].yieldFactor)
                      have == ingredient[rows[k].ingredientId].currentStock
                  IN  /\ list[k].ingredientId = rows[k].ingredientId
                      /\ Positive(per) /\ per.d # 0
                            => FitsTimes(list[k].canMake, have, per)
            /\ Len(list) = 0 => most = Num(0)
            /\ (Len(list) > 0 /\ \A k \in 1 .. Len(list) : ~IsNaN(list[k].canMake))
                  => /\ \E k \in 1 .. Len(list) : most = list[k].canMake
                     /\ \A k \in 1 .. Len(list) : ~Lt(list[k].canMake, most)

\* a projection of two ingredients in which the stock of one holds a fraction
\* of a serving more than the servings counted, and the other limits the item
C20_Witness ==
  \E p \in Procs :
     /\ Projected(p)
     /\ Len(response[p].body.deductions) = 2
     /\ response[p].body.deductions[1].canMake = Num(2)
     /\ response[p].body.deductions[1].currentStock = Num(4)
     /\ response[p].body.deductions[1].actualDeduction = Norm(3, 2)
     /\ response[p].body.deductions[2].canMake = Num(1)
     /\ response[p].body.maxServings = Num(1)

\* ---------------------------------------------------------------------------
\* Notifications

\* the published notifications of sales, as (menuItemId, quantitySold) pairs
SaleNotes ==
  LET notes == SelectSeq(emitted, LAMBDA e : e.message = "Sale processed")
  IN  [k \in 1 .. Len(notes) |->
         [menuItemId |-> notes[k].menuItemId, quantitySold |-> notes[k].quantitySold]]

\* p's Sale was recorded and its publication failed
PublishFailed(p) ==
  /\ IsSaleCall(p)
  /\ Done(p)
  /\ response[p].status = 500
  /\ Len(sale) = entry[p].sales + 1

\* C25: a 'Sale processed' notification is published only by a sale that has
\* recorded its Sale (the last Sale row is that sale's) and answers success; a
\* request that ends otherwise publishes nothing; and the step after the
\* recording, whether it publishes or fails to, leaves the stock deduction and
\* the Sale record as they were
C25_NotifiedAfterCommit ==
  [][/\ emitted' # emitted =>
          \E p \in Procs :
             /\ pc[p] = "emit"
             /\ sale # << >>
             /\ sale[Len(sale)] = [menuItemId |-> SaleItem(p), quantitySold |-> SaleQty(p)]
             /\ emitted' = Append(emitted, [message |-> "Sale processed",
                                            menuItemId |-> SaleItem(p),
                                            quantitySold |-> SaleQty(p)])
             /\ response'[p].status = 200
     /\ \A p \in Procs :
          (pc[p] # "done" /\ pc'[p] = "done" /\ response'[p].status # 200)
             => emitted' = emitted
     /\ \A p \in Procs :
          (pc[p] = "emit" /\ pc'[p] = "done") =>
             /\ SaleApplied(p)
             /\ ingredient' = ingredient
             /\ sale' = sale]_vars

\* a sale that was published, then a sale of a recipe that was recorded and
\* whose publication failed: two Sales, one notification
C25_Witness ==
  \E p, r \in Procs :
     /\ p < r
     /\ SaleSucceeded(p)
     /\ PublishFailed(r) /\ Last(r)
     /\ SaleQty(r) > 0
     /\ Len(RecipeOf(SaleItem(r))) > 0
     /\ SaleApplied(r)
     /\ Len(SaleNotes) = 1
     /\ Len(sale) = 2

\* ---------------------------------------------------------------------------
\* Menu items without a recipe

\* p is a sale of an existing menu item that has no RecipeItems
SaleWithoutRecipe(p) ==
  /\ IsSaleCall(p)
  /\ SaleItem(p) \in DOMAIN menuItem
  /\ Len(RecipeOf(SaleItem(p))) = 0

\* C30: a sale of an existing menu item without RecipeItems is never turned
\* down, whatever its quantitySold; it changes no ingredient's stock, and when
\* it has answered success exactly its Sale has been recorded
C30_SaleWithoutRecipeSucceeds ==
  \A p \in Procs :
     (SaleWithoutRecipe(p) /\ Last(p)) =>
        /\ Stock = entry[p].stock
        /\ Len(wasteLog) = entry[p].wasteLogs
        /\ Done(p) => response[p].status # 400
        /\ (Done(p) /\ response[p].status = 200) =>
              /\ Len(sale) = entry[p].sales + 1
              /\ sale[Len(sale)] = [menuItemId |-> SaleItem(p),
                                     quantitySold |-> SaleQty(p)]

\* a sale of two units of the item without a recipe, on an empty Bun stock
C30_Witness ==
  \E p \in Procs :
     /\ SaleWithoutRecipe(p) /\ Last(p)
     /\ SaleSucceeded(p)
     /\ SaleQty(p) = 2
     /\ Len(sale) = entry[p].sales + 1
     /\ Stock[2] = Num(0)

\* ---------------------------------------------------------------------------
\* Decrements under concurrency

\* what the updates that p has issued so far took from ingredient i
RECURSIVE IssuedBySale(_, _, _)
IssuedBySale(p, i, k) ==
  IF k = 0
    THEN Num(0)
    ELSE Add(IssuedBySale(p, i, k - 1),
             IF loaded[p].recipeItems[k].ingredientId = i
               THEN Total(loaded[p].recipeItems[k], SaleQty(p))
               ELSE Num(0))

IssuedBy(p, i) ==
  IF IsSaleCall(p) /\ idx[p] >= 1
    THEN IssuedBySale(p, i, idx[p] - 1)
    ELSE IF /\ IsWasteCall(p)
            /\ \/ pc[p] = "wasteEmit"
               \/ Done(p) /\ response[p].status = 201
            /\ WasteIngredient(p) = i
           THEN Num(WasteQty(p))
           ELSE Num(0)

RECURSIVE SumIssued(_, _)
SumIssued(n, i) ==
  IF n = 0 THEN Num(0) ELSE Add(SumIssued(n - 1, i), IssuedBy(n, i))

\* the totals of the sales that answered success
RECURSIVE SumSucceeded(_, _)
SumSucceeded(n, i) ==
  IF n = 0
    THEN Num(0)
    ELSE Add(SumSucceeded(n - 1, i),
             IF SaleSucceeded(n) THEN Removal(SaleItem(n), i, SaleQty(n)) ELSE Num(0))

\* every request has answered and none with a failure of the store
AllAnsweredNoFailure ==
  \A p \in Procs : Arrived(p) => (Done(p) /\ response[p].status # 500)

\* C28: under any interleaving of sales and waste logs no decrement is lost:
\* in every state each stock is the initial stock less every decrement issued
\* so far, and once all calls have answered (none with a store failure) it is
\* the initial stock less the totals of the sales that answered success and
\* the quantities of the recorded waste logs
C28_NoLostDecrement ==
  \A i \in IngredientIds :
     /\ Stock[i] = Sub(stock0[i], SumIssued(MaxReq, i))
     /\ AllAnsweredNoFailure =>
           Stock[i] = Sub(Sub(stock0[i], SumSucceeded(MaxReq, i)), SumWaste(wasteLog, i))

\* two sales of the same item whose reads both came before either's write,
\* both answered success
C28_Witness ==
  /\ AllAnsweredNoFailure
  /\ \A p \in Procs : SaleSucceeded(p) /\ SaleItem(p) = 2
  /\ Lt(Stock[1], Num(0))

\* ---------------------------------------------------------------------------
\* The cost of a serving

\* the sum of actualDeduction x unitCost over the rows, in full precision
RECURSIVE SumCost(_)
SumCost(rows) ==
  IF rows = << >>
    THEN Num(0)
    ELSE Add(Mul(Div(Head(rows).quantityRequired, Head(rows).yieldFactor),
                 ingredient[Head(rows).ingredientId].unitCost),
             SumCost(Tail(rows)))

\* a to two decimals, ties away from zero
Round2(a) ==
  IF a.d = 0
    THEN a
    ELSE Norm(Sign(a.n) * ((200 * Abs(a.n) + a.d) \div (2 * a.d)), 100)

\* C27: totalIngredientCost of the projection is the full-precision sum of
\* actualDeduction x unitCost over the recipe's ingredients, rounded once to
\* two decimals
C27_TotalCostRoundedOnce ==
  \A p \in Procs :
     Projected(p) =>
        response[p].body.totalIngredientCost
          = Round2(SumCost(RecipeOf(Number(req[p].params.menuItemId).n)))

(***************************************************************************)
(* Reports over the history                                                *)
(***************************************************************************)
\* the sum of the numbers f[x], x in S
RECURSIVE SumNum(_, _)
SumNum(f, S) ==
  IF S = {}
    THEN Num(0)
    ELSE LET x == CHOOSE x \in S : TRUE
         IN  Add(f[x], SumNum(f, S \ {x}))

SalesReported(p) ==
  Done(p) /\ req[p].route = "GET /sales/report" /\ response[p].status = 200

\* the days the report of p covers
ReportDays(p, fallback) ==
  IF req[p].query.days = "1" THEN 1 ELSE fallback

\* the rows (by position) recorded in the window of the report of p
InWindow(p, rows, fallback) ==
  {k \in 1 .. Len(rows) :
     /\ req[p].now - ReportDays(p, fallback) <= rows[k].createdAt
     /\ rows[k].createdAt <= req[p].now}

\* C21: a sales report counts exactly the Sales created in the window from
\* now less days to now: totalSales is their number, and the summary has
\* exactly one entry per distinct menu item name among them, with the summed
\* quantitySold as quantity and the summed quantitySold x basePrice as revenue.
C21_SalesReportOverWindow ==
  \A p \in Procs :
    SalesReported(p) =>
      LET W == InWindow(p, sale, 7)
          names == {menuItem[sale[k].menuItemId].name : k \in W}
          of(name) == {k \in W : menuItem[sale[k].menuItemId].name = name}
      IN  /\ response[p].body.totalSales = Cardinality(W)
          /\ {e.name : e \in response[p].body.summary} = names
          /\ \A name \in names :
                \E e \in response[p].body.summary :
                  /\ e.name = name
                  /\ e.quantity = SumNum([k \in W |-> Num(sale[k].quantitySold)], of(name))
                  /\ e.revenue =
                       SumNum([k \in W |-> Mul(Num(sale[k].quantitySold),
                                               menuItem[sale[k].menuItemId].basePrice)],
                              of(name))
                  /\ \A f \in response[p].body.summary : f.name = name => f = e

WasteSummarised(p) ==
  Done(p) /\ req[p].route = "GET /waste-logs/summary" /\ response[p].status = 200

\* C22: a waste summary aggregates the WasteLogs of the window by ingredient
\* (total wasted, total cost as the sum of quantity x unitCost, count) and by
\* reason (count, total quantity); the counts of either view sum to
\* totalEntries and the total quantities of the two views are equal.
C22_WasteSummaryViewsAgree ==
  \A p \in Procs :
    WasteSummarised(p) =>
      LET W == InWindow(p, wasteLog, 30)
          body == response[p].body
          ofName(name) == {k \in W : ingredient[wasteLog[k].ingredientId].name = name}
          ofReason(reason) == {k \in W : wasteLog[k].reason = reason}
          quantity == [k \in W |-> Num(wasteLog[k].quantity)]
          cost == [k \in W |-> Mul(Num(wasteLog[k].quantity),
                                    ingredient[wasteLog[k].ingredientId].unitCost)]
      IN  /\ body.totalEntries = Cardinality(W)
          /\ \A e \in body.byIngredient :
                /\ e.totalWasted = SumNum(quantity, ofName(e.name))
                /\ e.totalCost = SumNum(cost, ofName(e.name))
                /\ e.count = Cardinality(ofName(e.name))
          /\ \A e \in body.byReason :
                /\ e.totalEntries = Cardinality(ofReason(e.reason))
                /\ e.totalQuantity = SumNum(quantity, ofReason(e.reason))
          /\ SumNum([e \in body.byIngredient |-> Num(e.count)], body.byIngredient)
               = Num(body.totalEntries)
          /\ SumNum([e \in body.byReason |-> Num(e.totalEntries)], body.byReason)
               = Num(body.totalEntries)
          /\ SumNum([e \in body.byIngredient |-> e.totalWasted], body.byIngredient)
               = SumNum([e \in body.byReason |-> e.totalQuantity], body.byReason)

\* the reporting operations
ReportRoutes ==
  {"GET /inventory", "GET /menu-items/:id", "GET /sales/report",
   "GET /waste-logs/summary", "GET /stock-deductions/:menuItemId",
   "generatePurchaseOrders"}

\* C26: every reporting operation (inventory summary, menu item details,
\* sales report, waste summary, stock-deduction projection, purchase orders)
\* is read-only: the step that answers it leaves every Ingredient, MenuItem,
\* RecipeItem, Sale and WasteLog as it was.
C26_ReportsReadOnly ==
  [][\A p \in Procs :
       (pc[p] # "done" /\ pc'[p] = "done" /\ req'[p].route \in ReportRoutes) =>
          /\ ingredient' = ingredient
          /\ menuItem' = menuItem
          /\ recipeItem' = recipeItem
          /\ sale' = sale
          /\ wasteLog' = wasteLog
          /\ sequence' = sequence]_vars

\* two reports were answered from a store holding sales and waste logs, one of
\* them the details of an existing menu item
C26_Witness ==
  \E p \in Procs, r \in Procs :
    /\ p # r
    /\ Done(p) /\ req[p].route = "GET /menu-items/:id" /\ response[p].status = 200
    /\ response[p].body.name = "Burger"
    /\ Done(r) /\ req[r].route \in ReportRoutes \ {"GET /menu-items/:id"}
    /\ response[r].status \in {0, 200}
    /\ sale # << >> /\ wasteLog # << >>


(***************************************************************************)
(* Structure of the store                                                  *)
(***************************************************************************)
\* no two of the rows are of the same menu item and ingredient
OnePerPair(rows) ==
  \A j \in 1 .. Len(rows), k \in 1 .. Len(rows) :
    (rows[j].menuItemId = rows[k].menuItemId /\ rows[j].ingredientId = rows[k].ingredientId)
      => j = k

\* C23: in every state reached by creating, updating and deleting recipe
\* items there is at most one RecipeItem per (MenuItem, Ingredient) pair, and a
\* create for a pair that already has one is rejected as a constraint
\* violation and leaves the RecipeItems as they were.
C23_OneRecipeItemPerPair ==
  [][/\ OnePerPair(recipeItem)
     /\ OnePerPair(recipeItem')
     /\ \A p \in Procs :
          (/\ pc[p] = "recipeCreate"
           /\ pc'[p] = "done"
           /\ \E k \in 1 .. Len(recipeItem) :
                 /\ recipeItem[k].menuItemId = req[p].body.menuItemId.val
                 /\ recipeItem[k].ingredientId = req[p].body.ingredientId.val)
            => /\ response'[p].status = 500
               /\ recipeItem' = recipeItem]_vars

\* a create for the pair Burger, Beef was rejected while the pair had its row,
\* and another request changed the recipe items
C23_Witness ==
  \E p \in Procs, r \in Procs :
    /\ Done(p) /\ req[p].route = "POST /recipe-items" /\ response[p].status = 500
    /\ req[p].body.menuItemId.val = 1 /\ req[p].body.ingredientId.val = 1
    /\ 1 \in DOMAIN menuItem /\ 1 \in DOMAIN ingredient
    /\ \E k \in 1 .. Len(recipeItem) :
          recipeItem[k].menuItemId = 1 /\ recipeItem[k].ingredientId = 1
    /\ Done(r)
    /\ req[r].route \in {"POST /recipe-items", "DELETE /recipe-items/:id"}
    /\ response[r].status \in {201, 204}

\* every RecipeItem, Sale and WasteLog references rows that are there
Referential(menuItems, ingredients, recipeItems, sales, wasteLogs) ==
  /\ \A k \in 1 .. Len(recipeItems) :
        /\ recipeItems[k].menuItemId \in DOMAIN menuItems
        /\ recipeItems[k].ingredientId \in DOMAIN ingredients
  /\ \A k \in 1 .. Len(sales) : sales[k].menuItemId \in DOMAIN menuItems
  /\ \A k \in 1 .. Len(wasteLogs) : wasteLogs[k].ingredientId \in DOMAIN ingredients

\* the request p is answered 204 by this step
Deleted(p, at) ==
  pc[p] = at /\ pc'[p] = "done" /\ response'[p].status = 204

\* C24: in every reachable state every RecipeItem, Sale and WasteLog
\* references an existing MenuItem or Ingredient; deleting a MenuItem removes
\* exactly that row, its RecipeItems and its Sales, deleting an Ingredient
\* removes exactly that row, its RecipeItems and its WasteLogs.
C24_ReferentialIntegrity ==
  [][/\ Referential(menuItem, ingredient, recipeItem, sale, wasteLog)
     /\ Referential(menuItem', ingredient', recipeItem', sale', wasteLog')
     /\ \A p \in Procs :
          Deleted(p, "menuItemDelete") =>
            LET m == Number(req[p].params.id).n
            IN  /\ m \in DOMAIN menuItem
                /\ menuItem' = [k \in DOMAIN menuItem \ {m} |-> menuItem[k]]
                /\ recipeItem' = SelectSeq(recipeItem, LAMBDA r : r.menuItemId # m)
                /\ sale' = SelectSeq(sale, LAMBDA r : r.menuItemId # m)
                /\ ingredient' = ingredient
                /\ wasteLog' = wasteLog
     /\ \A p \in Procs :
          Deleted(p, "ingredientDelete") =>
            LET i == Number(req[p].params.id).n
            IN  /\ i \in DOMAIN ingredient
                /\ ingredient' = [k \in DOMAIN ingredient \ {i} |-> ingredient[k]]
                /\ recipeItem' = SelectSeq(recipeItem, LAMBDA r : r.ingredientId # i)
                /\ wasteLog' = SelectSeq(wasteLog, LAMBDA r : r.ingredientId # i)
                /\ menuItem' = menuItem
                /\ sale' = sale]_vars

\* the Burger and the Bun were deleted: the Burger's recipe items and sale and
\* the Bun's waste log went with them, the rows of the others are still there
C24_Witness ==
  \E p \in Procs, r \in Procs :
    /\ Done(p) /\ req[p].route = "DELETE /menu-items/:id" /\ response[p].status = 204
    /\ Done(r) /\ req[r].route = "DELETE /ingredients/:id" /\ response[r].status = 204
    /\ DOMAIN menuItem = {2, 3}
    /\ DOMAIN ingredient = {1}
    /\ Len(recipeItem) = 1 /\ recipeItem[1].menuItemId = 2
    /\ sale = << [menuItemId |-> 3, quantitySold |-> 2] >>
    /\ Len(wasteLog) = 1 /\ wasteLog[1].ingredientId = 1

(***************************************************************************)
(* Projection and sale                                                     *)
(***************************************************************************)
\* C29: on one store, for a menu item that has recipe items of positive
\* quantity and yield, processSale of a positive whole quantity n finds the
\* stock sufficient exactly when n is at most the maxServings of the
\* projection.
C29_ProjectionAgreesWithSale ==
  \A p \in Procs, r \in Procs :
    (/\ Done(p) /\ req[p].route = "GET /stock-deductions/:menuItemId"
     /\ Done(r) /\ req[r].route = "processSale" /\ req[r].quantitySold > 0
     /\ \A k \in 1 .. Len(recipeItem) :
           /\ Lt(Num(0), recipeItem[k].quantityRequired)
           /\ Lt(Num(0), recipeItem[k].yieldFactor))
      => (response[r].body.returns.success
            <=> ~Lt(response[p].body.maxServings, Num(req[r].quantitySold)))

====
